---- MODULE Spec2Model ----
(***************************************************************************)
(* Verification model of the peopleclaychecking repository.                *)
(*                                                                         *)
(*  - SpecPage : the company-checking page (frontend/src/lib/parse.ts,     *)
(*               lib/compare.ts, app/company-checking/page.tsx): two text  *)
(*               areas, two normalisation toggles and the memoised         *)
(*               reconciliation result.                                    *)
(*  - Spec     : the matching API routes (app/api/matching/route.ts,       *)
(*               app/api/filters/route.ts, app/api/pie-data) driving the   *)
(*               backend scripts, the filter registry and the result       *)
(*               cache (matching_summary), requests served concurrently.   *)
(*  - SpecCache: the same routes with one request at a time, the wall      *)
(*               clock and the pie-data read.                              *)
(***************************************************************************)
EXTENDS Integers, Sequences, FiniteSets, TLC

(***************************************************************************)
(* Bounds                                                                  *)
(***************************************************************************)
MaxTextLenA == 3
MaxTextLenB == 2

(***************************************************************************)
(* Characters.  A text area value only ever holds LF line breaks, so CR is *)
(* handled by splitLines but never typed.                                  *)
(***************************************************************************)
SP == " "
NBSP == "NBSP"
LF == "LF"
CR == "CR"
Chars == {"a", "A", SP, NBSP, LF}
\* the right text area is typed from fewer keys: upper case and non-breaking
\* spaces reach the comparison through the left side
CharsB == {"a", SP, LF}

VARIABLES textA, textB, trim, caseInsensitive, results, cooldown, clipboard

pageVars == <<textA, textB, trim, caseInsensitive, results, cooldown, clipboard>>

VARIABLES procs, locks, userFilters, orgsAll, summaries, now, pie, listed

serverVars == <<procs, locks, userFilters, orgsAll, summaries, now, pie, listed>>

\* the approach page in the browser: the state of FilterSelector (sel), of
\* ApproachPage and FilterInput (app), and the requests under way (net)
VARIABLES sel, app, net
uiVars == <<sel, app, net>>

vars == <<pageVars, serverVars, uiVars>>

(***************************************************************************)
(* lib/parse.ts                                                            *)
(***************************************************************************)
\* raw.replace(/\r\n?/g, "\n"): CR LF and a lone CR both become one LF
RECURSIVE ReplaceCRLF(_)
ReplaceCRLF(raw) ==
  IF raw = <<>> THEN <<>>
  ELSE IF raw[1] = CR
       THEN IF Len(raw) >= 2 /\ raw[2] = LF
            THEN <<LF>> \o ReplaceCRLF(SubSeq(raw, 3, Len(raw)))
            ELSE <<LF>> \o ReplaceCRLF(Tail(raw))
       ELSE <<raw[1]>> \o ReplaceCRLF(Tail(raw))

\* String.prototype.split("\n"): n separators give n+1 pieces
RECURSIVE SplitLF(_, _)
SplitLF(s, cur) ==
  IF s = <<>> THEN <<cur>>
  ELSE IF s[1] = LF THEN <<cur>> \o SplitLF(Tail(s), <<>>)
       ELSE SplitLF(Tail(s), Append(cur, s[1]))

splitLines(raw) ==
  IF raw = <<>> THEN <<>> ELSE SplitLF(ReplaceCRLF(raw), <<>>)

\* mutant: the g flag is missing, only the first non-breaking space is replaced
ReplaceNbspFirstOnly(s) ==
  [i \in 1..Len(s) |->
     IF s[i] = NBSP /\ (\A j \in 1..(i - 1) : s[j] # NBSP) THEN SP ELSE s[i]]

\* result.replace(/\u00A0/g, " ")
ReplaceNbsp(s) == [i \in 1..Len(s) |-> IF s[i] = NBSP THEN SP ELSE s[i]]

\* White space in the sense of String.prototype.trim
IsWhiteSpace(c) == c \in {SP, NBSP, LF, CR}

RECURSIVE TrimStart(_)
TrimStart(s) ==
  IF s # <<>> /\ IsWhiteSpace(s[1]) THEN TrimStart(Tail(s)) ELSE s

RECURSIVE TrimEnd(_)
TrimEnd(s) ==
  IF s # <<>> /\ IsWhiteSpace(s[Len(s)])
  THEN TrimEnd(SubSeq(s, 1, Len(s) - 1)) ELSE s

Trim(s) == TrimEnd(TrimStart(s))

\* the lower-case letter of every upper-case letter
LowerOf ==
  "A" :> "a" @@ "B" :> "b" @@ "C" :> "c" @@ "D" :> "d" @@ "E" :> "e" @@ "F" :> "f" @@
  "G" :> "g" @@ "H" :> "h" @@ "I" :> "i" @@ "J" :> "j" @@ "K" :> "k" @@ "L" :> "l" @@
  "M" :> "m" @@ "N" :> "n" @@ "O" :> "o" @@ "P" :> "p" @@ "Q" :> "q" @@ "R" :> "r" @@
  "S" :> "s" @@ "T" :> "t" @@ "U" :> "u" @@ "V" :> "v" @@ "W" :> "w" @@ "X" :> "x" @@
  "Y" :> "y" @@ "Z" :> "z"

\* mutant: the letters are left as they are
ToLowerCaseAsIs(s) == s

ToLowerCase(s) ==
  [i \in 1..Len(s) |-> IF s[i] \in DOMAIN LowerOf THEN LowerOf[s[i]] ELSE s[i]]

normalizeLine(line, options) ==
  LET r1 == ReplaceNbsp(line)
      r2 == IF options.trim THEN Trim(r1) ELSE r1
      r3 == IF options.caseInsensitive THEN ToLowerCase(r2) ELSE r2
  IN r3

\* mutant: the blank test is missing, every line is counted and kept
toUniqueSetStepKeepBlank(acc, raw, options) ==
  LET normalized == normalizeLine(raw, options)
      arr == IF normalized \in DOMAIN acc.normalizedToOriginals
             THEN acc.normalizedToOriginals[normalized] ELSE <<>>
  IN [set |-> acc.set \cup {normalized},
      normalizedToOriginals |->
        [k \in DOMAIN acc.normalizedToOriginals \cup {normalized} |->
           IF k = normalized THEN Append(arr, raw)
           ELSE acc.normalizedToOriginals[k]],
      totalCount |-> acc.totalCount + 1]

\* mutant: totalCount is raised only on the first occurrence of a key
toUniqueSetStepCountFirst(acc, raw, options) ==
  LET normalized == normalizeLine(raw, options)
      arr == IF normalized \in DOMAIN acc.normalizedToOriginals
             THEN acc.normalizedToOriginals[normalized] ELSE <<>>
  IN IF Len(normalized) = 0 THEN acc
     ELSE [set |-> acc.set \cup {normalized},
           normalizedToOriginals |->
             [k \in DOMAIN acc.normalizedToOriginals \cup {normalized} |->
                IF k = normalized THEN Append(arr, raw)
                ELSE acc.normalizedToOriginals[k]],
           totalCount |-> IF normalized \in acc.set THEN acc.totalCount
                          ELSE acc.totalCount + 1]

\* mutant: the raw line is put in front of the originals (unshift for push)
toUniqueSetStepUnshift(acc, raw, options) ==
  LET normalized == normalizeLine(raw, options)
      arr == IF normalized \in DOMAIN acc.normalizedToOriginals
             THEN acc.normalizedToOriginals[normalized] ELSE <<>>
  IN IF Len(normalized) = 0 THEN acc
     ELSE [set |-> acc.set \cup {normalized},
           normalizedToOriginals |->
             [k \in DOMAIN acc.normalizedToOriginals \cup {normalized} |->
                IF k = normalized THEN <<raw>> \o arr
                ELSE acc.normalizedToOriginals[k]],
           totalCount |-> acc.totalCount + 1]

\* One iteration of the for-loop of toUniqueSet
toUniqueSetStep(acc, raw, options) ==
  LET normalized == normalizeLine(raw, options)
      arr == IF normalized \in DOMAIN acc.normalizedToOriginals
             THEN acc.normalizedToOriginals[normalized] ELSE <<>>
  IN IF Len(normalized) = 0 THEN acc
     ELSE [set |-> acc.set \cup {normalized},
           normalizedToOriginals |->
             [k \in DOMAIN acc.normalizedToOriginals \cup {normalized} |->
                IF k = normalized THEN Append(arr, raw)
                ELSE acc.normalizedToOriginals[k]],
           totalCount |-> acc.totalCount + 1]

RECURSIVE toUniqueSetLoop(_, _, _)
toUniqueSetLoop(lines, acc, options) ==
  IF lines = <<>> THEN acc
  ELSE toUniqueSetLoop(Tail(lines), toUniqueSetStep(acc, Head(lines), options), options)

toUniqueSet(lines, options) ==
  LET acc == toUniqueSetLoop(lines,
               [set |-> {}, normalizedToOriginals |-> <<>>, totalCount |-> 0],
               options)
  IN [set |-> acc.set,
      normalizedToOriginals |-> acc.normalizedToOriginals,
      totalCount |-> acc.totalCount,
      uniqueCount |-> Cardinality(acc.set)]

(***************************************************************************)
(* lib/compare.ts                                                          *)
(***************************************************************************)
\* mutant: larger is picked with the same test as smaller
setIntersectionSameSide(a, b) ==
  LET smaller == IF Cardinality(a) <= Cardinality(b) THEN a ELSE b
      larger == IF Cardinality(a) <= Cardinality(b) THEN a ELSE b
  IN {item \in smaller : item \in larger}

setIntersection(a, b) ==
  LET smaller == IF Cardinality(a) <= Cardinality(b) THEN a ELSE b
      larger == IF Cardinality(a) <= Cardinality(b) THEN b ELSE a
  IN {item \in smaller : item \in larger}

\* lines 5-7: the loop over the items, counting the calls of larger.has
RECURSIVE intersectLoop(_, _)
intersectLoop(items, larger) ==
  IF items = {} THEN [result |-> {}, has |-> 0]
  ELSE LET item == CHOOSE x \in items : TRUE
           rest == intersectLoop(items \ {item}, larger)
       IN [result |-> IF item \in larger THEN rest.result \cup {item}
                      ELSE rest.result,
           has |-> rest.has + 1]

\* mutant: the first argument is iterated, whatever the sizes
setIntersectionRunFirst(a, b) == intersectLoop(a, b)

\* lines 1-9 with the number of membership tests made
setIntersectionRun(a, b) ==
  IF Cardinality(a) <= Cardinality(b) THEN intersectLoop(a, b)
  ELSE intersectLoop(b, a)

\* mutant: the negation of the membership test is missing
setDifferenceNoNegation(a, b) == {item \in a : item \in b}

setDifference(a, b) == {item \in a : item \notin b}

(***************************************************************************)
(* app/company-checking/page.tsx                                           *)
(* The two check boxes are in the DOM (styled "hidden"); their handlers    *)
(* are the only writers of trim and caseInsensitive.                       *)
(***************************************************************************)
reconcile(a, b) ==
  [matches |-> setIntersection(a.set, b.set),
   onlyA |-> setDifference(a.set, b.set),
   onlyB |-> setDifference(b.set, a.set)]

\* the useMemo body of the page
computeResults(dA, dB, options) ==
  LET a == toUniqueSet(splitLines(dA), options)
      b == toUniqueSet(splitLines(dB), options)
      r == reconcile(a, b)
  IN [aTotal |-> a.totalCount, bTotal |-> b.totalCount,
      aUnique |-> a.uniqueCount, bUnique |-> b.uniqueCount,
      matches |-> r.matches, onlyA |-> r.onlyA, onlyB |-> r.onlyB]

options == [trim |-> trim, caseInsensitive |-> caseInsensitive]

\* iteration order of a JavaScript Set built from lines: keys in first-seen order
RECURSIVE insertionOrder(_, _, _)
insertionOrder(lines, seen, opts) ==
  IF lines = <<>> THEN <<>>
  ELSE IF \/ Len(normalizeLine(Head(lines), opts)) = 0
          \/ normalizeLine(Head(lines), opts) \in seen
       THEN insertionOrder(Tail(lines), seen, opts)
       ELSE <<normalizeLine(Head(lines), opts)>> \o
            insertionOrder(Tail(lines), seen \cup {normalizeLine(Head(lines), opts)}, opts)

\* the keys of one result set in the order "for (const k of keys)" visits them:
\* matches was filled while iterating the smaller side, onlyA side A, onlyB side B
keysInOrder(keys, label, dA, dB, opts) ==
  IF label = "onlyA"
  THEN SelectSeq(insertionOrder(splitLines(dA), {}, opts), LAMBDA k : k \in keys)
  ELSE IF label = "onlyB"
  THEN SelectSeq(insertionOrder(splitLines(dB), {}, opts), LAMBDA k : k \in keys)
  ELSE IF Len(insertionOrder(splitLines(dA), {}, opts)) <=
          Len(insertionOrder(splitLines(dB), {}, opts))
  THEN SelectSeq(insertionOrder(splitLines(dA), {}, opts), LAMBDA k : k \in keys)
  ELSE SelectSeq(insertionOrder(splitLines(dB), {}, opts), LAMBDA k : k \in keys)

\* mutant: side B's originals are looked up first
originalsOfPreferB(k, a, b) ==
  IF k \in DOMAIN b.normalizedToOriginals THEN b.normalizedToOriginals[k]
  ELSE IF k \in DOMAIN a.normalizedToOriginals THEN a.normalizedToOriginals[k]
  ELSE <<k>>

\* mutant: the maps are not looked up, the key itself is exported
originalsOfKeyItself(k, a, b) == <<k>>

\* a.normalizedToOriginals.get(k) ?? b.normalizedToOriginals.get(k) ?? [k]
originalsOf(k, a, b) ==
  IF k \in DOMAIN a.normalizedToOriginals THEN a.normalizedToOriginals[k]
  ELSE IF k \in DOMAIN b.normalizedToOriginals THEN b.normalizedToOriginals[k]
  ELSE <<k>>

getOriginalList(keys, dA, dB, opts) ==
  LET a == toUniqueSet(splitLines(dA), opts)
      b == toUniqueSet(splitLines(dB), opts)
  IN [i \in 1..Len(keys) |-> originalsOf(keys[i], a, b)[1]]

Labels == {"onlyA", "matches", "onlyB"}

\* clipboard holds what a copy wrote only in the state right after it
NoCopy == [label |-> "", keys |-> <<>>, lines |-> <<>>]

PageInit ==
  /\ textA = <<>>
  /\ textB = <<>>
  /\ trim = FALSE
  /\ caseInsensitive = FALSE
  /\ cooldown = ""
  /\ clipboard = NoCopy
  /\ results = computeResults(<<>>, <<>>, [trim |-> FALSE, caseInsensitive |-> FALSE])

\* onChange of the left text area (one keystroke), value settled by the debounce
SetTextA ==
  /\ \E t \in {Append(textA, c) : c \in Chars} \cup
              {SubSeq(textA, 1, Len(textA) - 1)} :
       /\ Len(t) <= MaxTextLenA
       /\ t # textA
       /\ textA' = t
       /\ results' = computeResults(t, textB, options)
  /\ clipboard' = NoCopy
  /\ UNCHANGED <<textB, trim, caseInsensitive, cooldown, serverVars, uiVars>>

SetTextB ==
  /\ \E t \in {Append(textB, c) : c \in CharsB} \cup
              {SubSeq(textB, 1, Len(textB) - 1)} :
       /\ Len(t) <= MaxTextLenB
       /\ t # textB
       /\ textB' = t
       /\ results' = computeResults(textA, t, options)
  /\ clipboard' = NoCopy
  /\ UNCHANGED <<textA, trim, caseInsensitive, cooldown, serverVars, uiVars>>

SetTrim ==
  /\ trim' = ~trim
  /\ results' = computeResults(textA, textB,
                   [trim |-> ~trim, caseInsensitive |-> caseInsensitive])
  /\ clipboard' = NoCopy
  /\ UNCHANGED <<textA, textB, caseInsensitive, cooldown, serverVars, uiVars>>

SetCaseInsensitive ==
  /\ caseInsensitive' = ~caseInsensitive
  /\ results' = computeResults(textA, textB,
                   [trim |-> trim, caseInsensitive |-> ~caseInsensitive])
  /\ clipboard' = NoCopy
  /\ UNCHANGED <<textA, textB, trim, cooldown, serverVars, uiVars>>

PageNext == SetTextA \/ SetTextB \/ SetTrim \/ SetCaseInsensitive

\* lists of company names pasted into the text areas: "Acme Inc" written in
\* several ways (letter case, surrounding blanks), "Globex", "Initech"
AcmeInc == <<"A", "c", "m", "e", " ", "I", "n", "c">>
AcmeIncLower == <<"a", "c", "m", "e", " ", "i", "n", "c">>
Globex == <<"G", "l", "o", "b", "e", "x">>
Initech == <<"I", "n", "i", "t", "e", "c", "h">>
AcmeVariants ==
  {AcmeInc, AcmeIncLower, <<" ", "A", "C", "M", "E", " ", "I", "N", "C">>,
   <<"A", "c", "m", "e", " ", "I", "n", "c", NBSP>>}

RECURSIVE JoinLF(_)
JoinLF(lines) ==
  IF Len(lines) = 0 THEN <<>>
  ELSE IF Len(lines) = 1 THEN lines[1]
  ELSE lines[1] \o <<LF>> \o JoinLF(Tail(lines))

PastedA == {JoinLF(<<x, y, Globex>>) : x, y \in AcmeVariants}
PastedB == {JoinLF(<<x, Initech>>) : x \in AcmeVariants}

\* onChange of the left text area with a pasted (or cleared) value
PasteTextA ==
  /\ \E t \in PastedA \cup {<<>>} :
       /\ t # textA
       /\ textA' = t
       /\ results' = computeResults(t, textB, options)
  /\ clipboard' = NoCopy
  /\ UNCHANGED <<textB, trim, caseInsensitive, cooldown, serverVars, uiVars>>

PasteTextB ==
  /\ \E t \in PastedB \cup {<<>>} :
       /\ t # textB
       /\ textB' = t
       /\ results' = computeResults(textA, t, options)
  /\ clipboard' = NoCopy
  /\ UNCHANGED <<textA, trim, caseInsensitive, cooldown, serverVars, uiVars>>

PasteNext == PasteTextA \/ PasteTextB \/ SetTrim \/ SetCaseInsensitive

\* CopyChips: click on one of the three chips
copy(label) ==
  /\ cooldown = ""
  /\ clipboard' =
       [label |-> label,
        keys |-> keysInOrder(results[label], label, textA, textB, options),
        lines |-> getOriginalList(
                    keysInOrder(results[label], label, textA, textB, options),
                    textA, textB, options)]
  /\ cooldown' = label
  /\ UNCHANGED <<textA, textB, trim, caseInsensitive, results, serverVars, uiVars>>

\* setTimeout(() => setCooldown(null), 1000)
CooldownExpired ==
  /\ cooldown # ""
  /\ cooldown' = ""
  /\ clipboard' = NoCopy
  /\ UNCHANGED <<textA, textB, trim, caseInsensitive, results, serverVars, uiVars>>

ExportNext ==
  \/ SetTextA
  \/ SetTextB
  \/ SetTrim
  \/ SetCaseInsensitive
  \/ \E label \in Labels : copy(label)
  \/ CooldownExpired

(***************************************************************************)
(* Server side: bounds and value domains                                   *)
(***************************************************************************)
NumProcs == 2
MaxTime == 1
MaxRows == 2

Procs == 1..NumProcs

\* JSON / JavaScript values that reach the routes
Null == [t |-> "null", v |-> <<>>]
Undefined == [t |-> "undefined", v |-> <<>>]
Str(s) == [t |-> "string", v |-> s]
Num123 == [t |-> "number", v |-> <<"1", "2", "3">>]

Digits == {"1", "2", "3"}
\* filters the CRM knows, and the one the concurrent runs ask for
FilterIds == {<<"1">>, <<"2">>}
RequestedIds == {<<"1">>}
Identities == {Null} \cup {Str(f) : f \in FilterIds}

\* organizations known to the CRM, and the companies of the lead side
Orgs == {"o1", "o2"}
Leads == {"o1"}
\* what the CRM may answer to one pull
CrmAnswers == {{"o1"}, {"o1", "o2"}}

\* request bodies the model sends
MatchingFilterIds == {Null, Undefined, Str(<<>>), Num123} \cup {Str(f) : f \in RequestedIds}
FilterUrls ==
  {Undefined, Str(<<>>), Num123, Str(<<"x">>)} \cup
  {Str(<<"x", "filters/">> \o f) : f \in RequestedIds} \cup
  {Str(<<"x", "filter_id=">> \o f) : f \in RequestedIds}
PieQueries == {Null, Str(<<"null">>), Str(<<>>)} \cup {Str(f) : f \in RequestedIds}

\* requests of the registry runs: references in every supported format, one
\* without digits, one to a filter the CRM does not know
RegistryUrls ==
  {Str(<<"x", "filters/", "1">>),
   Str(<<"x", "filter_id=", "2">>),
   Str(<<"x", "filters/", "1", "?", "x">>),
   Str(<<"x", "3", "filters/", "2">>),
   Str(<<"x", "2", "x", "1">>),
   Str(<<"1">>),
   Str(<<"x", "filters/", "1", "2">>),
   Str(<<"x", "filters/", "x">>)}
RegistryFilterIds == {Str(f) : f \in FilterIds}

\* the answer of GET /api/filters, held only in the state right after it
NoList == [status |-> 0, filters |-> <<>>]

\* the "Original Data" entry
OriginalData == [filter_id |-> Null, created_at |-> Null]

NoResp == [status |-> 0, success |-> FALSE, fromCache |-> FALSE,
           filterId |-> Undefined, error |-> ""]

\* no pair of runMatching calls is open
NoCall == 0 - 1

\* pie holds the answer of a GET only in the state right after it
NoPie == [status |-> 0, hasData |-> FALSE, running |-> 0, notActive |-> 0,
          filterId |-> Undefined, lastUpdated |-> 0]

NoCmd == [script |-> "", arg |-> Undefined, force |-> FALSE]

\* after / served: the number of summary rows of the identity that the previous
\* and this runMatching call left behind (history only); existed / wrote: a
\* summary was there when the workflow began, a row was written by it;
\* known: the filter was in the registry when the workflow began; crm: what
\* the workflow did with the CRM ("none", "stalled": asked and no answer yet,
\* "failed", "stored": pulled and saved); pulled: the organizations the CRM
\* answered
IdleProc ==
  [st |-> "idle", route |-> "", forceRefresh |-> FALSE,
   cmd |-> NoCmd, id |-> Undefined, stdout |-> {}, err |-> "",
   counts |-> <<0, 0>>, existed |-> FALSE, wrote |-> FALSE, after |-> NoCall,
   served |-> NoCall, known |-> FALSE, crm |-> "none", pulled |-> {},
   resp |-> NoResp]

AbsentFilter ==
  [present |-> FALSE, is_active |-> FALSE, created_at |-> 0, last_used |-> 0,
   organizations_count |-> 0, orgs |-> {}]

(***************************************************************************)
(* Result cache: the matching_summary table of results.db                  *)
(***************************************************************************)
\* rows of one filter identity, in insertion (rowid) order
RowsFor(id) == SelectSeq(summaries, LAMBDA r : r.filter_id = id)

HasSummary(id) == \E i \in 1..Len(summaries) : summaries[i].filter_id = id

\* mutant: the row of the identity is overwritten (one row per identity)
putReplace(id, counts) ==
  Append(SelectSeq(summaries, LAMBDA r : r.filter_id # id),
         [filter_id |-> id, matching_companies |-> counts[1],
          non_matching_pipedrive |-> counts[2], created_at |-> now])

\* put: one row appended, stamped with CURRENT_TIMESTAMP
put(id, counts) ==
  Append(summaries,
         [filter_id |-> id, matching_companies |-> counts[1],
          non_matching_pipedrive |-> counts[2], created_at |-> now])

\* cache policy of the orchestrator
cacheHit(id, force) == ~force /\ HasSummary(id)

(***************************************************************************)
(* Filter registry: user_filters / filtered_organizations of pipedrive.db  *)
(***************************************************************************)
RECURSIVE DigitRun(_, _)
DigitRun(ref, i) ==
  IF i <= Len(ref) /\ ref[i] \in Digits THEN <<ref[i]>> \o DigitRun(ref, i + 1)
  ELSE <<>>

\* mutant: the markers are not looked for, the first digit run is taken
resolveFilterReferenceFirstDigits(ref) ==
  LET anyDigit == {i \in 1..Len(ref) : ref[i] \in Digits}
      Min(S) == CHOOSE m \in S : \A n \in S : m <= n
  IN IF anyDigit # {} THEN DigitRun(ref, Min(anyDigit)) ELSE <<>>

\* the digits after "filters/" or "filter_id=", else the first digit run, else none
resolveFilterReference(ref) ==
  LET marked == {i \in 1..Len(ref) :
                   /\ ref[i] \in {"filters/", "filter_id="}
                   /\ i < Len(ref)
                   /\ ref[i + 1] \in Digits}
      anyDigit == {i \in 1..Len(ref) : ref[i] \in Digits}
      Min(S) == CHOOSE m \in S : \A n \in S : m <= n
  IN IF marked # {} THEN DigitRun(ref, Min(marked) + 1)
     ELSE IF anyDigit # {} THEN DigitRun(ref, Min(anyDigit))
     ELSE <<>>

\* the filter is in the registry (not deleted)
Exists(f) == userFilters[f].present /\ userFilters[f].is_active

\* mutant: the new organizations are added to the stored ones
upsertFilterMerge(f, orgs) ==
  [userFilters EXCEPT ![f] =
     IF Exists(f)
     THEN [@ EXCEPT !.last_used = now,
                    !.organizations_count = Cardinality(userFilters[f].orgs \cup orgs),
                    !.orgs = @ \cup orgs]
     ELSE [present |-> TRUE, is_active |-> TRUE, created_at |-> now,
           last_used |-> now,
           organizations_count |-> Cardinality(orgs), orgs |-> orgs]]

upsertFilter(f, orgs) ==
  [userFilters EXCEPT ![f] =
     IF Exists(f)
     THEN [@ EXCEPT !.last_used = now,
                    !.organizations_count = Cardinality(orgs),
                    !.orgs = orgs]
     ELSE [present |-> TRUE, is_active |-> TRUE, created_at |-> now,
           last_used |-> now,
           organizations_count |-> Cardinality(orgs), orgs |-> orgs]]

\* the organization set a workflow reconciles against the lead side
MembershipOf(id) == IF id = Null THEN orgsAll ELSE userFilters[id.v].orgs

matchCounts(orgs) == <<Cardinality(orgs \cap Leads), Cardinality(orgs \ Leads)>>

(***************************************************************************)
(* app/api/matching/route.ts : POST                                        *)
(***************************************************************************)
\* line 11
\* mutant: the type test of line 11 is missing
ValidFilterIdAny(filterId) == TRUE

\* line 11
ValidFilterId(filterId) == filterId.t \in {"null", "undefined", "string"}

\* mutant: only null stands for "Original Data"
IsOriginalDataNullOnly(filterId) == filterId = Null

\* line 23
IsOriginalData(filterId) ==
  filterId = Null \/ filterId = Undefined \/ filterId = Str(<<>>)

\* mutant: --force is always passed for a named filter
matchingCommandAlwaysForce(filterId, forceRefresh) ==
  IF IsOriginalData(filterId)
  THEN IF forceRefresh
       THEN [script |-> "main.py && matching.py", arg |-> Null, force |-> FALSE]
       ELSE [script |-> "matching.py", arg |-> Null, force |-> FALSE]
  ELSE [script |-> "filtered_matching.py --match", arg |-> filterId,
        force |-> TRUE]

\* lines 23-39: the command line handed to bash
matchingCommand(filterId, forceRefresh) ==
  IF IsOriginalData(filterId)
  THEN IF forceRefresh
       THEN [script |-> "main.py && matching.py", arg |-> Null, force |-> FALSE]
       ELSE [script |-> "matching.py", arg |-> Null, force |-> FALSE]
  ELSE [script |-> "filtered_matching.py --match", arg |-> filterId,
        force |-> forceRefresh]

\* mutant: the two scripts are joined with ";" and the second always runs
AndAndRunsAlways(firstOk) == TRUE

\* a && b : b runs only when a exited with 0
AndAndRuns(firstOk) == firstOk

\* String.prototype.includes on the messages the scripts print
Includes(msg, pat) ==
  <<msg.text, pat>> \in
    {<<"Results retrieved from cache", "Results retrieved from cache">>,
     <<"Results retrieved from cache", "retrieved from cache">>,
     <<"Results retrieved from existing cache", "retrieved from existing cache">>,
     <<"Results retrieved from existing cache", "Results retrieved from existing cache">>}

StdoutIncludes(stdout, pat) == \E m \in stdout : Includes(m, pat)

\* mutant: only one of the four messages is looked for
fromCacheOfOneMessage(stdout) == StdoutIncludes(stdout, "Found existing results")

\* lines 66-69
fromCacheOf(stdout) ==
  \/ StdoutIncludes(stdout, "Results retrieved from cache")
  \/ StdoutIncludes(stdout, "retrieved from existing cache")
  \/ StdoutIncludes(stdout, "Found existing results")
  \/ StdoutIncludes(stdout, "retrieving from cache")

\* mutant: every exit code is taken for success
ExitedOkAlways(code) == TRUE

\* line 61
ExitedOk(code) == code = 0

InFlight == {p \in Procs : procs[p].st \notin {"idle", "responded"}}

\* history: what the last answered runMatching(id, forceRefresh = false) left
\* behind, if its answer is still at hand and no upsert for id happened since
previousCall(id) ==
  LET prev == {procs[q].served : q \in
                 {r \in Procs : /\ procs[r].st = "responded"
                                /\ procs[r].route = "matching"
                                /\ procs[r].cmd.arg = id
                                /\ procs[r].served # NoCall}}
  IN IF prev = {} THEN NoCall ELSE CHOOSE m \in prev : \A n \in prev : n <= m

\* a request is served in the first free slot
FreeSlot(p) ==
  /\ procs[p].st = "idle"
  /\ \A q \in Procs : procs[q].st = "idle" => p <= q

POST_matching(p, filterId, forceRefresh) ==
  /\ FreeSlot(p)
  /\ Len(summaries) + Cardinality(InFlight) < MaxRows
  /\ IF ~ValidFilterId(filterId)
     THEN procs' = [procs EXCEPT ![p] =
            [IdleProc EXCEPT !.st = "responded", !.route = "matching",
               !.forceRefresh = forceRefresh,
               !.resp = [NoResp EXCEPT !.status = 400,
                           !.error = "filterId must be null, undefined, or a string"]]]
     ELSE procs' = [procs EXCEPT ![p] =
            [IdleProc EXCEPT !.st = "SPAWNED", !.route = "matching",
               !.forceRefresh = forceRefresh,
               !.cmd = matchingCommand(filterId, forceRefresh),
               !.after = IF forceRefresh THEN NoCall
                         ELSE previousCall(matchingCommand(filterId, forceRefresh).arg)]]
  /\ pie' = NoPie
  /\ listed' = NoList
  /\ UNCHANGED <<pageVars, locks, userFilters, orgsAll, summaries, now>>

PostMatching(p, filterId, forceRefresh) == POST_matching(p, filterId, forceRefresh) /\ UNCHANGED uiVars

(***************************************************************************)
(* app/api/filters/route.ts : POST                                         *)
(***************************************************************************)
\* line 66: !filterUrl || typeof filterUrl !== 'string'
ValidFilterUrl(filterUrl) == filterUrl.t = "string" /\ filterUrl.v # <<>>

POST_filters(p, filterUrl) ==
  /\ FreeSlot(p)
  /\ Len(summaries) + Cardinality(InFlight) < MaxRows
  /\ IF ~ValidFilterUrl(filterUrl)
     THEN procs' = [procs EXCEPT ![p] =
            [IdleProc EXCEPT !.st = "responded", !.route = "filters",
               !.resp = [NoResp EXCEPT !.status = 400,
                           !.error = "filterUrl is required and must be a string"]]]
     ELSE procs' = [procs EXCEPT ![p] =
            [IdleProc EXCEPT !.st = "SPAWNED", !.route = "filters",
               !.cmd = [script |-> "filtered_matching.py", arg |-> filterUrl,
                        force |-> FALSE]]]
  /\ pie' = NoPie
  /\ listed' = NoList
  /\ UNCHANGED <<pageVars, locks, userFilters, orgsAll, summaries, now>>

PostFilters(p, filterUrl) == POST_filters(p, filterUrl) /\ UNCHANGED uiVars

\* pythonProcess.on('error'): bash could not be started
SpawnError(p) ==
  /\ procs[p].st = "SPAWNED"
  /\ procs' = [procs EXCEPT ![p].st = "responded",
                 ![p].resp = [NoResp EXCEPT !.status = 500,
                                !.error = IF procs[p].route = "matching"
                                          THEN "Failed to execute matching"
                                          ELSE "Failed to execute filter processing"]]
  /\ pie' = NoPie
  /\ listed' = NoList
  /\ UNCHANGED <<pageVars, uiVars, locks, userFilters, orgsAll, summaries, now>>

(***************************************************************************)
(* Backend scripts (filtered_matching.py, matching.py, main.py)            *)
(***************************************************************************)
Msg(text) == [text |-> text, id |-> <<>>]
FilterMsg(f) == [text |-> "Filter: (ID: )", id |-> f]

\* mutant: no command names a filter
UsesReferenceNever(cmd) == FALSE

UsesReference(cmd) ==
  cmd.script \in {"filtered_matching.py", "filtered_matching.py --match"}

\* the request's filter identity, as far as the caller names it
TargetOf(pr) ==
  IF pr.id # Undefined THEN pr.id
  ELSE IF pr.route = "matching" THEN pr.cmd.arg
  ELSE Undefined

\* history: an upsert for id ends every "twice in a row" pair on id
ForgetAfter(ps, id) ==
  [q \in Procs |->
     IF ps[q].st # "idle" /\ TargetOf(ps[q]) = id
     THEN [ps[q] EXCEPT !.after = NoCall, !.served = NoCall] ELSE ps[q]]

\* RESOLVE_FILTER
Resolve(p) ==
  /\ procs[p].st = "SPAWNED"
  /\ UsesReference(procs[p].cmd)
  /\ LET f == resolveFilterReference(procs[p].cmd.arg.v)
     IN IF f \in FilterIds
        THEN procs' = [procs EXCEPT ![p].st = "RESOLVE_FILTER", ![p].id = Str(f),
                         ![p].stdout = @ \cup {FilterMsg(f)}]
        ELSE procs' = [procs EXCEPT ![p].st = "FAILED",
                         ![p].id = IF f = <<>> THEN Undefined ELSE Str(f),
                         ![p].err = IF f = <<>> THEN "InvalidReferenceError"
                                    ELSE "FilterNotFoundError"]
  /\ pie' = NoPie
  /\ listed' = NoList
  /\ UNCHANGED <<pageVars, uiVars, locks, userFilters, orgsAll, summaries, now>>

\* mutant: the lock is never found taken
tryLockAlways(held, id) == TRUE

\* per-filter mutual exclusion: the workflow takes the lock of its identity
tryLock(held, id) == id \notin held

Acquire(p) ==
  /\ \/ procs[p].st = "RESOLVE_FILTER"
     \/ procs[p].st = "SPAWNED" /\ ~UsesReference(procs[p].cmd)
  /\ LET id == IF UsesReference(procs[p].cmd) THEN procs[p].id ELSE Null
     IN IF tryLock(locks, id)
        THEN /\ locks' = locks \cup {id}
             /\ procs' = [procs EXCEPT ![p].st = "FETCH_ORGANIZATIONS", ![p].id = id,
                            ![p].existed = HasSummary(id),
                            ![p].known = IF id = Null THEN TRUE ELSE Exists(id.v)]
        ELSE /\ locks' = locks
             /\ procs' = [procs EXCEPT ![p].st = "FAILED",
                            ![p].err = "ConcurrencyConflictError"]
  /\ pie' = NoPie
  /\ listed' = NoList
  /\ UNCHANGED <<pageVars, uiVars, userFilters, orgsAll, summaries, now>>

\* main.py of "main.py && matching.py": the full data sync
FetchSync(p) ==
  /\ procs[p].st = "FETCH_ORGANIZATIONS"
  /\ procs[p].cmd.script = "main.py && matching.py"
  /\ procs[p].crm = "none"
  /\ \/ \E o \in CrmAnswers :
          /\ orgsAll' = o
          /\ AndAndRuns(TRUE)
          /\ procs' = [ForgetAfter(procs, Null) EXCEPT ![p].st = "RECONCILE",
                                                       ![p].crm = "stored",
                                                       ![p].pulled = o]
          /\ locks' = locks
     \/ /\ UNCHANGED orgsAll
        /\ IF AndAndRuns(FALSE)
           THEN /\ procs' = [procs EXCEPT ![p].st = "RECONCILE", ![p].crm = "failed",
                               ![p].err = "ExternalFetchError"]
                /\ locks' = locks
           ELSE /\ procs' = [procs EXCEPT ![p].st = "FAILED", ![p].crm = "failed",
                               ![p].err = "ExternalFetchError"]
                /\ locks' = locks \ {procs[p].id}
  /\ pie' = NoPie
  /\ listed' = NoList
  /\ UNCHANGED <<pageVars, uiVars, userFilters, summaries, now>>

\* matching.py alone, or a known filter without --force: the persisted data is reused
FetchReuse(p) ==
  /\ procs[p].st = "FETCH_ORGANIZATIONS"
  /\ \/ procs[p].cmd.script = "matching.py"
     \/ /\ UsesReference(procs[p].cmd)
        /\ ~cacheHit(procs[p].id, procs[p].cmd.force)
        /\ Exists(procs[p].id.v)
        /\ ~procs[p].cmd.force
  /\ procs' = [procs EXCEPT ![p].st = "RECONCILE"]
  /\ pie' = NoPie
  /\ listed' = NoList
  /\ UNCHANGED <<pageVars, uiVars, locks, userFilters, orgsAll, summaries, now>>

\* filtered_matching.py: the cached summary is served
FetchCached(p) ==
  /\ procs[p].st = "FETCH_ORGANIZATIONS"
  /\ UsesReference(procs[p].cmd)
  /\ cacheHit(procs[p].id, procs[p].cmd.force)
  /\ procs' = [procs EXCEPT ![p].st = "DONE",
                 ![p].stdout = @ \cup
                   {IF procs[p].cmd.script = "filtered_matching.py"
                    THEN Msg("Results retrieved from existing cache")
                    ELSE Msg("Results retrieved from cache")}]
  /\ locks' = locks \ {procs[p].id}
  /\ pie' = NoPie
  /\ listed' = NoList
  /\ UNCHANGED <<pageVars, uiVars, userFilters, orgsAll, summaries, now>>

\* filtered_matching.py: new filter or --force, the CRM is asked
FetchCRM(p) ==
  /\ procs[p].st = "FETCH_ORGANIZATIONS"
  /\ UsesReference(procs[p].cmd)
  /\ ~cacheHit(procs[p].id, procs[p].cmd.force)
  /\ ~Exists(procs[p].id.v) \/ procs[p].cmd.force
  /\ procs[p].crm = "none"
  /\ \/ \E o \in CrmAnswers :
          /\ userFilters' = upsertFilter(procs[p].id.v, o)
          /\ procs' = [ForgetAfter(procs, procs[p].id) EXCEPT ![p].st = "RECONCILE",
                                                                ![p].crm = "stored",
                                                                ![p].pulled = o]
          /\ locks' = locks
     \/ /\ procs' = [procs EXCEPT ![p].st = "FAILED", ![p].crm = "failed",
                        ![p].err = "ExternalFetchError"]
        /\ locks' = locks \ {procs[p].id}
        /\ UNCHANGED userFilters
  /\ pie' = NoPie
  /\ listed' = NoList
  /\ UNCHANGED <<pageVars, uiVars, orgsAll, summaries, now>>

\* the workflow is about to ask the CRM
CallsCRM(p) ==
  /\ procs[p].st = "FETCH_ORGANIZATIONS"
  /\ procs[p].crm = "none"
  /\ \/ procs[p].cmd.script = "main.py && matching.py"
     \/ /\ UsesReference(procs[p].cmd)
        /\ ~cacheHit(procs[p].id, procs[p].cmd.force)
        /\ ~Exists(procs[p].id.v) \/ procs[p].cmd.force

\* the CRM is asked and does not answer
Stall(p) ==
  /\ CallsCRM(p)
  /\ procs' = [procs EXCEPT ![p].crm = "stalled"]
  /\ pie' = NoPie
  /\ listed' = NoList
  /\ UNCHANGED <<pageVars, uiVars, locks, userFilters, orgsAll, summaries, now>>

\* mutant: the call to the CRM carries no upper bound
timesOutNever(waiting) == FALSE

\* the call to the CRM is given up after its upper bound
timesOut(waiting) == waiting

\* the stalled call is given up: the script fails with ExternalFetchError
Timeout(p) ==
  /\ procs[p].st = "FETCH_ORGANIZATIONS"
  /\ timesOut(procs[p].crm = "stalled")
  /\ procs' = [procs EXCEPT ![p].st = "FAILED", ![p].crm = "failed",
                 ![p].err = "ExternalFetchError"]
  /\ locks' = locks \ {procs[p].id}
  /\ pie' = NoPie
  /\ listed' = NoList
  /\ UNCHANGED <<pageVars, uiVars, userFilters, orgsAll, summaries, now>>

\* matching.py: the cached summary of the unfiltered comparison is served
ReconcileCached(p) ==
  /\ procs[p].st = "RECONCILE"
  /\ ~UsesReference(procs[p].cmd)
  /\ cacheHit(Null, procs[p].cmd.force)
  /\ procs' = [procs EXCEPT ![p].st = "DONE",
                 ![p].stdout = @ \cup {Msg("Results retrieved from cache")}]
  /\ locks' = locks \ {procs[p].id}
  /\ pie' = NoPie
  /\ listed' = NoList
  /\ UNCHANGED <<pageVars, uiVars, userFilters, orgsAll, summaries, now>>

\* RECONCILE
Reconcile(p) ==
  /\ procs[p].st = "RECONCILE"
  /\ UsesReference(procs[p].cmd) \/ ~cacheHit(Null, procs[p].cmd.force)
  /\ \/ /\ procs' = [procs EXCEPT ![p].st = "PERSIST",
                       ![p].counts = matchCounts(MembershipOf(procs[p].id))]
        /\ locks' = locks
     \/ /\ procs' = [procs EXCEPT ![p].st = "FAILED", ![p].err = "ReconcileError"]
        /\ locks' = locks \ {procs[p].id}
  /\ pie' = NoPie
  /\ listed' = NoList
  /\ UNCHANGED <<pageVars, uiVars, userFilters, orgsAll, summaries, now>>

\* PERSIST
Persist(p) ==
  /\ procs[p].st = "PERSIST"
  /\ \/ /\ summaries' = put(procs[p].id, procs[p].counts)
        /\ procs' = [procs EXCEPT ![p].st = "DONE", ![p].wrote = TRUE]
     \/ /\ summaries' = summaries
        /\ procs' = [procs EXCEPT ![p].st = "FAILED", ![p].err = "StorageError"]
  /\ locks' = locks \ {procs[p].id}
  /\ pie' = NoPie
  /\ listed' = NoList
  /\ UNCHANGED <<pageVars, uiVars, userFilters, orgsAll, now>>

(***************************************************************************)
(* The routes' close handlers                                              *)
(***************************************************************************)
exitCode(pr) == IF pr.st = "DONE" THEN 0 ELSE 1

\* the process is gone: its output buffer and working data go with it
Exited(pr) ==
  [pr EXCEPT !.st = "responded", !.stdout = {}, !.counts = <<0, 0>>,
             !.known = FALSE, !.crm = "none", !.pulled = {},
             !.id = IF pr.route = "matching" THEN pr.cmd.arg ELSE Undefined]

\* app/api/matching/route.ts lines 60-89
CloseMatching(p) ==
  /\ procs[p].st \in {"DONE", "FAILED"}
  /\ procs[p].route = "matching"
  /\ LET pr == procs[p]
         id == pr.cmd.arg
         snap == Len(RowsFor(id))
     IN IF ExitedOk(exitCode(pr))
        THEN procs' = [procs EXCEPT ![p] = [Exited(pr) EXCEPT
                         !.served = IF pr.forceRefresh THEN NoCall ELSE snap,
                         !.resp = [NoResp EXCEPT !.status = 200, !.success = TRUE,
                                     !.fromCache = fromCacheOf(pr.stdout),
                                     !.filterId = id]]]
        ELSE procs' = [procs EXCEPT ![p] = [Exited(pr) EXCEPT
                         !.resp = [NoResp EXCEPT !.status = 500,
                                     !.filterId = id,
                                     !.error = "Matching failed"]]]
  /\ pie' = NoPie
  /\ listed' = NoList
  /\ UNCHANGED <<pageVars, uiVars, locks, userFilters, orgsAll, summaries, now>>

\* app/api/filters/route.ts lines 91-120
CloseFilters(p) ==
  /\ procs[p].st \in {"DONE", "FAILED"}
  /\ procs[p].route = "filters"
  /\ LET pr == procs[p]
         ids == {m.id : m \in {n \in pr.stdout : n.text = "Filter: (ID: )"}}
     IN IF ExitedOk(exitCode(pr))
        THEN procs' = [procs EXCEPT ![p] = [Exited(pr) EXCEPT
                         !.resp = [NoResp EXCEPT !.status = 200, !.success = TRUE,
                            !.fromCache =
                               \/ StdoutIncludes(pr.stdout, "Results retrieved from existing cache")
                               \/ StdoutIncludes(pr.stdout, "retrieved from cache"),
                            !.filterId = IF ids = {} THEN Null
                                         ELSE Str(CHOOSE f \in ids : TRUE)]]]
        ELSE procs' = [procs EXCEPT ![p] = [Exited(pr) EXCEPT
                         !.resp = [NoResp EXCEPT !.status = 500,
                                     !.error = "Filter processing failed"]]]
  /\ pie' = NoPie
  /\ listed' = NoList
  /\ UNCHANGED <<pageVars, uiVars, locks, userFilters, orgsAll, summaries, now>>

\* the response has reached the caller; the slot serves the next request
Responded(p) ==
  /\ procs[p].st = "responded"
  /\ procs' = [procs EXCEPT ![p] = IdleProc]
  /\ pie' = NoPie
  /\ listed' = NoList
  /\ UNCHANGED <<pageVars, locks, userFilters, orgsAll, summaries, now>>

Deliver(p) == Responded(p) /\ UNCHANGED uiVars

\* wall clock, in the resolution of CURRENT_TIMESTAMP
Tick ==
  /\ now < MaxTime
  /\ now' = now + 1
  /\ pie' = NoPie
  /\ listed' = NoList
  /\ UNCHANGED <<pageVars, uiVars, procs, locks, userFilters, orgsAll, summaries>>

(***************************************************************************)
(* app/api/pie-data : GET  (second part of matching/route.ts)              *)
(***************************************************************************)
\* WHERE clause, lines 132-152
PieMatches(q, r) ==
  IF q = Null \/ q = Str(<<"null">>) \/ q = Str(<<>>)
  THEN r.filter_id = Null \/ r.filter_id = Str(<<>>)
  ELSE r.filter_id = q

\* ORDER BY created_at DESC LIMIT 1: a row no other matching row is newer than;
\* among rows of equal created_at the engine is free to return any
PieCandidates(q) ==
  {i \in 1..Len(summaries) :
     /\ PieMatches(q, summaries[i])
     /\ \A j \in 1..Len(summaries) :
          PieMatches(q, summaries[j]) => summaries[j].created_at <= summaries[i].created_at}

GET_pieData(q) ==
  /\ \/ pie' = [NoPie EXCEPT !.status = 500]
     \/ /\ PieCandidates(q) = {}
        /\ pie' = [NoPie EXCEPT !.status = 200, !.filterId = q]
     \/ \E i \in PieCandidates(q) :
          pie' = [status |-> 200, hasData |-> TRUE,
                  running |-> summaries[i].matching_companies,
                  notActive |-> summaries[i].non_matching_pipedrive,
                  filterId |-> q, lastUpdated |-> summaries[i].created_at]
  /\ listed' = NoList
  /\ UNCHANGED <<pageVars, procs, locks, userFilters, orgsAll, summaries, now>>

GetPieData(q) == GET_pieData(q) /\ UNCHANGED uiVars

(***************************************************************************)
(* app/api/filters/route.ts : GET                                          *)
(***************************************************************************)
\* the rows of user_filters: the query has no WHERE clause
StoredFilters == {f \in FilterIds : userFilters[f].present}

\* ORDER BY created_at DESC: every order of the rows in which created_at never
\* rises; rows of equal created_at come in any order
RowOrders ==
  {o \in [1..Cardinality(StoredFilters) -> StoredFilters] :
     /\ \A i, j \in DOMAIN o : i # j => o[i] # o[j]
     /\ \A i, j \in DOMAIN o :
          i < j => userFilters[o[i]].created_at >= userFilters[o[j]].created_at}

\* mutant: the "Original Data" entry is put after the rows
filtersOfRowsLast(rows) == rows \o <<OriginalData>>

\* lines 37-47: [ { filter_id: null, ... }, ...(rows || []) ]
filtersOfRows(rows) == <<OriginalData>> \o rows

GET_filters ==
  /\ \/ listed' = [NoList EXCEPT !.status = 500]
     \/ \E o \in RowOrders :
          listed' = [status |-> 200,
                     filters |-> filtersOfRows(
                       [i \in DOMAIN o |->
                          [filter_id |-> Str(o[i]),
                           created_at |-> userFilters[o[i]].created_at]])]
  /\ pie' = NoPie
  /\ UNCHANGED <<pageVars, procs, locks, userFilters, orgsAll, summaries, now>>

ListFilters == GET_filters /\ UNCHANGED uiVars

(***************************************************************************)
(* filtered_matching.py --delete                                           *)
(***************************************************************************)
\* the filter and its membership are removed: the row is dropped, or it is
\* kept with is_active cleared (logical deletion)
DeleteFilter(f) ==
  /\ Exists(f)
  /\ Str(f) \notin locks
  /\ \/ userFilters' = [userFilters EXCEPT ![f] = AbsentFilter]
     \/ userFilters' = [userFilters EXCEPT ![f] =
                          [@ EXCEPT !.is_active = FALSE,
                                    !.organizations_count = 0, !.orgs = {}]]
  /\ procs' = ForgetAfter(procs, Str(f))
  /\ pie' = NoPie
  /\ listed' = NoList
  /\ UNCHANGED <<pageVars, uiVars, locks, orgsAll, summaries, now>>

(***************************************************************************)
(* components/FilterSelector.tsx, components/FilterInput.tsx and           *)
(* app/approach/page.tsx                                                   *)
(***************************************************************************)
\* error === null
NoError == ""

\* pieData === null: nothing is drawn yet
NoPieData == [shown |-> FALSE, running |-> 0, notActive |-> 0]
PieOf(running, notActive) ==
  [shown |-> TRUE, running |-> running, notActive |-> notActive]

\* what a GET has answered, as far as the components read it
NoAns == [status |-> 0, hasData |-> FALSE, running |-> 0, notActive |-> 0]

\* a fetch under way: its route, the code that issued it, its filterId, the
\* bash process serving it (POST only), the selectedFilterId its handler
\* closed over, and the answer once the route has produced it
Request(kind, by, q, proc, prev) ==
  [kind |-> kind, by |-> by, q |-> q, proc |-> proc, prev |-> prev,
   st |-> "sent", ans |-> NoAns]

\* fetchFilters: fetch('/api/filters')
fetchFilters(by) == Request("filters", by, Null, 0, Null)

\* fetchPieData: /api/pie-data?filterId=... , "null" for no filter
fetchPieData(filterId) == Request("pie", "select", filterId, 0, Null)
PieQueryOf(filterId) == IF filterId = Null THEN Str(<<"null">>) ELSE filterId

\* the filter ids of the buttons
ButtonsOf(filters) == {filters[i].filter_id : i \in DOMAIN filters}

\* the auto-select effect: the filter ids it selects (none or one)
autoSelect(filters, selectedFilterId, newlyAddedFilterId) ==
  IF Len(filters) = 0 THEN {}
  ELSE IF newlyAddedFilterId # Null
       THEN {newlyAddedFilterId} \cap ButtonsOf(filters)
       ELSE IF selectedFilterId = Null THEN {Null} ELSE {}

\* setSelectedFilterId of the selector by the effect
selectedBy(chosen, selectedFilterId) ==
  IF chosen = {} THEN selectedFilterId ELSE CHOOSE f \in chosen : TRUE

\* handleFilterSelect: setSelectedFilterId(filterId) of the page
handleFilterSelect(chosen) ==
  IF chosen = {} THEN app
  ELSE [app EXCEPT !.selectedFilterId = CHOOSE f \in chosen : TRUE]

\* the state after mount: both components have issued their first fetch
UiInit ==
  /\ sel = [filters |-> <<>>, selectedFilterId |-> Null, isLoading |-> TRUE,
            error |-> NoError, isProcessing |-> FALSE]
  /\ app = [pieData |-> NoPieData, selectedFilterId |-> Null,
            newlyAddedFilterId |-> Null, isLoading |-> FALSE]
  /\ net = {fetchFilters("mount"), fetchPieData(Null)}

\* GET /api/filters answers, and fetchFilters goes on after the await: thrown
\* is the catch branch
ReceiveFilters(r, thrown) ==
  /\ r \in net
  /\ r.kind = "filters"
  /\ r.st = "sent"
  /\ GET_filters
  /\ IF ~thrown /\ listed'.status = 200
     THEN /\ sel' = [sel EXCEPT
                  !.filters = listed'.filters,
                  !.selectedFilterId =
                     selectedBy(autoSelect(listed'.filters, sel.selectedFilterId,
                                           app.newlyAddedFilterId), @),
                  !.isLoading = FALSE]
          /\ app' = handleFilterSelect(
                      autoSelect(listed'.filters, sel.selectedFilterId,
                                 app.newlyAddedFilterId))
          /\ net' = (net \ {r}) \cup
               {fetchPieData(f) :
                  f \in autoSelect(listed'.filters, sel.selectedFilterId,
                                   app.newlyAddedFilterId)}
     ELSE /\ sel' = [sel EXCEPT
                  !.error = IF thrown THEN "Network error occurred"
                            ELSE "Failed to fetch filters",
                  !.isLoading = FALSE]
          /\ net' = net \ {r}
          /\ UNCHANGED app

\* the error view is shown
ErrorView == ~sel.isLoading /\ sel.error # NoError

\* the list of filter buttons is shown
ListView == ~sel.isLoading /\ sel.error = NoError

\* the Retry button: onClick={fetchFilters}
Retry ==
  /\ ErrorView
  /\ fetchFilters("retry") \notin net
  /\ net' = net \cup {fetchFilters("retry")}
  /\ UNCHANGED <<pageVars, serverVars, sel, app>>

\* mutant: the selector never counts as busy
BusyNever(isProcessing) == FALSE

\* if (isProcessing) return, and disabled={isProcessing} of the buttons
Busy(isProcessing) == isProcessing

\* handleFilterClick up to the await
handleFilterClick(f) ==
  /\ ListView
  /\ f \in ButtonsOf(sel.filters)
  /\ IF Busy(sel.isProcessing)
     THEN UNCHANGED vars
     ELSE /\ \E p \in Procs :
               /\ POST_matching(p, f, FALSE)
               /\ net' = net \cup
                    {Request("matching", "click", f, p, sel.selectedFilterId)}
          /\ sel' = [sel EXCEPT !.selectedFilterId = f, !.isProcessing = TRUE,
                                !.error = NoError]
          /\ UNCHANGED app

\* handleFilterClick after the await: thrown is the catch branch
ReceiveMatching(r, thrown) ==
  /\ r \in net
  /\ r.kind = "matching"
  /\ procs[r.proc].st = "responded"
  /\ Responded(r.proc)
  /\ IF ~thrown /\ procs[r.proc].resp.status = 200 /\ procs[r.proc].resp.success
     THEN /\ sel' = [sel EXCEPT !.isProcessing = FALSE]
          /\ app' = handleFilterSelect({r.q})
          /\ net' = (net \ {r}) \cup {fetchPieData(r.q)}
     ELSE /\ sel' = [sel EXCEPT
                  !.error = IF thrown THEN "Network error occurred"
                            ELSE IF procs[r.proc].resp.error # ""
                                 THEN procs[r.proc].resp.error
                                 ELSE "Failed to run matching",
                  !.selectedFilterId = r.prev,
                  !.isProcessing = FALSE]
          /\ net' = net \ {r}
          /\ UNCHANGED app

\* GET /api/pie-data answers a fetch
ServePie(r) ==
  /\ r \in net
  /\ r.kind = "pie"
  /\ r.st = "sent"
  /\ GET_pieData(PieQueryOf(r.q))
  /\ net' = (net \ {r}) \cup
       {[r EXCEPT !.st = "answered",
                  !.ans = [NoAns EXCEPT !.status = pie'.status,
                                        !.hasData = pie'.hasData,
                                        !.running = pie'.running,
                                        !.notActive = pie'.notActive]]}
  /\ UNCHANGED <<sel, app>>

\* fetchPieData after the await: thrown is the catch branch
ReceivePie(r, thrown) ==
  /\ r \in net
  /\ r.kind = "pie"
  /\ r.st = "answered"
  /\ app' = [app EXCEPT !.pieData =
               IF thrown THEN PieOf(426, 8682)
               ELSE IF r.ans.hasData THEN PieOf(r.ans.running, r.ans.notActive)
               ELSE PieOf(0, 0)]
  /\ net' = net \ {r}
  /\ UNCHANGED <<pageVars, serverVars, sel>>

\* the filter reference typed into FilterInput
SubmittedUrls == {Str(<<"x", "filters/", "1">>)}

\* FilterInput.handleSubmit up to the await
handleSubmit(filterUrl) ==
  /\ ~app.isLoading
  /\ \E p \in Procs :
       /\ POST_filters(p, filterUrl)
       /\ net' = net \cup {Request("add", "submit", filterUrl, p, Null)}
  /\ app' = [app EXCEPT !.isLoading = TRUE]
  /\ UNCHANGED sel

\* data.filterId || null
OrNull(v) == IF v \in {Null, Undefined, Str(<<>>)} THEN Null ELSE v

\* handleSubmit after the await, with handleFilterAdded on success: the new
\* refreshTrigger makes the selector fetch its filters, and the auto-select
\* effect runs when newlyAddedFilterId has changed
ReceiveAdded(r, thrown) ==
  /\ r \in net
  /\ r.kind = "add"
  /\ procs[r.proc].st = "responded"
  /\ Responded(r.proc)
  /\ IF ~thrown /\ procs[r.proc].resp.status = 200 /\ procs[r.proc].resp.success
     THEN /\ sel' = [sel EXCEPT !.selectedFilterId =
                  IF OrNull(procs[r.proc].resp.filterId) = app.newlyAddedFilterId
                  THEN @
                  ELSE selectedBy(autoSelect(sel.filters, @,
                                    OrNull(procs[r.proc].resp.filterId)), @)]
          /\ app' = [(IF OrNull(procs[r.proc].resp.filterId) = app.newlyAddedFilterId
                      THEN app
                      ELSE handleFilterSelect(
                             autoSelect(sel.filters, sel.selectedFilterId,
                                        OrNull(procs[r.proc].resp.filterId))))
                     EXCEPT !.newlyAddedFilterId = OrNull(procs[r.proc].resp.filterId),
                            !.isLoading = FALSE]
          /\ net' = (net \ {r}) \cup {fetchFilters("added")} \cup
               (IF OrNull(procs[r.proc].resp.filterId) = app.newlyAddedFilterId
                THEN {}
                ELSE {fetchPieData(f) :
                        f \in autoSelect(sel.filters, sel.selectedFilterId,
                                         OrNull(procs[r.proc].resp.filterId))})
     ELSE /\ app' = [app EXCEPT !.isLoading = FALSE]
          /\ net' = net \ {r}
          /\ UNCHANGED sel

(***************************************************************************)
(* Specifications                                                          *)
(***************************************************************************)
ServerInit ==
  /\ procs = [p \in Procs |-> IdleProc]
  /\ locks = {}
  /\ userFilters = [f \in FilterIds |-> AbsentFilter]
  /\ orgsAll = {}
  /\ summaries = <<>>
  /\ now = 0
  /\ pie = NoPie
  /\ listed = NoList

Init == PageInit /\ ServerInit /\ UiInit

\* the routes and the scripts, requests overlapping freely
Next ==
  \/ \E p \in Procs, filterId \in MatchingFilterIds, forceRefresh \in BOOLEAN :
       PostMatching(p, filterId, forceRefresh)
  \/ \E p \in Procs, filterUrl \in FilterUrls : PostFilters(p, filterUrl)
  \/ \E p \in Procs : SpawnError(p)
  \/ \E p \in Procs : Resolve(p)
  \/ \E p \in Procs : Acquire(p)
  \/ \E p \in Procs : FetchSync(p)
  \/ \E p \in Procs : FetchReuse(p)
  \/ \E p \in Procs : FetchCached(p)
  \/ \E p \in Procs : FetchCRM(p)
  \/ \E p \in Procs : ReconcileCached(p)
  \/ \E p \in Procs : Reconcile(p)
  \/ \E p \in Procs : Persist(p)
  \/ \E p \in Procs : CloseMatching(p)
  \/ \E p \in Procs : CloseFilters(p)
  \/ \E p \in Procs : Deliver(p)

Spec == Init /\ [][Next]_vars

\* runMatching called by one caller, one request after the other, the clock
\* running and the pie chart reading the cache between the calls
NextCache ==
  \/ /\ InFlight = {}
     /\ \E p \in Procs, filterId \in MatchingFilterIds, forceRefresh \in BOOLEAN :
          PostMatching(p, filterId, forceRefresh)
  \/ \E p \in Procs : SpawnError(p)
  \/ \E p \in Procs : Resolve(p)
  \/ \E p \in Procs : Acquire(p)
  \/ \E p \in Procs : FetchSync(p)
  \/ \E p \in Procs : FetchReuse(p)
  \/ \E p \in Procs : FetchCached(p)
  \/ \E p \in Procs : FetchCRM(p)
  \/ \E p \in Procs : ReconcileCached(p)
  \/ \E p \in Procs : Reconcile(p)
  \/ \E p \in Procs : Persist(p)
  \/ \E p \in Procs : CloseMatching(p)
  \/ \E p \in Procs : Deliver(p)
  \/ Tick
  \/ /\ InFlight = {}
     /\ \E q \in PieQueries : GetPieData(q)

SpecCache == Init /\ [][NextCache]_vars

\* every earlier response has been delivered
Quiet == \A p \in Procs : procs[p].st = "idle"

\* the filter registry: requests one at a time over both filters, deletion,
\* the wall clock and the listing
NextRegistry ==
  \/ /\ Quiet
     /\ \E p \in Procs, filterUrl \in RegistryUrls : PostFilters(p, filterUrl)
  \/ /\ Quiet
     /\ \E p \in Procs, filterId \in RegistryFilterIds, forceRefresh \in BOOLEAN :
          PostMatching(p, filterId, forceRefresh)
  \/ \E p \in Procs : SpawnError(p)
  \/ \E p \in Procs : Resolve(p)
  \/ \E p \in Procs : Acquire(p)
  \/ \E p \in Procs : FetchReuse(p)
  \/ \E p \in Procs : FetchCached(p)
  \/ \E p \in Procs : FetchCRM(p)
  \/ \E p \in Procs : Reconcile(p)
  \/ \E p \in Procs : Persist(p)
  \/ \E p \in Procs : CloseMatching(p)
  \/ \E p \in Procs : CloseFilters(p)
  \/ \E p \in Procs : Deliver(p)
  \/ Tick
  \/ /\ Quiet
     /\ ListFilters
  \/ /\ Quiet
     /\ \E f \in FilterIds : DeleteFilter(f)

SpecRegistry == Init /\ [][NextRegistry]_vars

SpecPage == Init /\ [][PageNext]_vars

SpecPaste == Init /\ [][PasteNext]_vars

\* concurrent requests whose calls to the CRM may stall; every process that
\* can take a step takes one, and every finished process is answered
Step(p) ==
  \/ Resolve(p) \/ Acquire(p)
  \/ FetchSync(p) \/ FetchReuse(p) \/ FetchCached(p) \/ FetchCRM(p)
  \/ Timeout(p)
  \/ ReconcileCached(p) \/ Reconcile(p) \/ Persist(p)
  \/ CloseMatching(p) \/ CloseFilters(p)

\* a forced run without filter (the full sync), a run for a named filter,
\* a reference to that filter
LiveRequests == {<<Null, TRUE>>, <<Str(<<"1">>), FALSE>>}
LiveUrls == {Str(<<"x", "filters/", "1">>)}

NextLive ==
  \/ \E p \in Procs, req \in LiveRequests : PostMatching(p, req[1], req[2])
  \/ \E p \in Procs, filterUrl \in LiveUrls : PostFilters(p, filterUrl)
  \/ \E p \in Procs : SpawnError(p)
  \/ \E p \in Procs : Stall(p)
  \/ \E p \in Procs : Resolve(p)
  \/ \E p \in Procs : Acquire(p)
  \/ \E p \in Procs : FetchSync(p)
  \/ \E p \in Procs : FetchReuse(p)
  \/ \E p \in Procs : FetchCached(p)
  \/ \E p \in Procs : FetchCRM(p)
  \/ \E p \in Procs : Timeout(p)
  \/ \E p \in Procs : ReconcileCached(p)
  \/ \E p \in Procs : Reconcile(p)
  \/ \E p \in Procs : Persist(p)
  \/ \E p \in Procs : CloseMatching(p)
  \/ \E p \in Procs : CloseFilters(p)
  \/ \E p \in Procs : Deliver(p)

SpecLive == Init /\ [][NextLive]_vars /\ \A p \in Procs : WF_vars(Step(p))

SpecExport == Init /\ [][ExportNext]_vars

\* the approach page in one browser tab against the routes and the scripts;
\* a filter reference is submitted while no fetch of the page is pending
ApproachNext ==
  \/ \E r \in net, thrown \in BOOLEAN : ReceiveFilters(r, thrown)
  \/ Retry
  \/ \E f \in Identities : handleFilterClick(f)
  \/ \E r \in net, thrown \in BOOLEAN : ReceiveMatching(r, thrown)
  \/ \E r \in net : ServePie(r)
  \/ \E r \in net, thrown \in BOOLEAN : ReceivePie(r, thrown)
  \/ /\ net = {}
     /\ \E filterUrl \in SubmittedUrls : handleSubmit(filterUrl)
  \/ \E r \in net, thrown \in BOOLEAN : ReceiveAdded(r, thrown)
  \/ \E p \in Procs : SpawnError(p)
  \/ \E p \in Procs : Resolve(p)
  \/ \E p \in Procs : Acquire(p)
  \/ \E p \in Procs : FetchReuse(p)
  \/ \E p \in Procs : FetchCached(p)
  \/ \E p \in Procs : FetchCRM(p)
  \/ \E p \in Procs : ReconcileCached(p)
  \/ \E p \in Procs : Reconcile(p)
  \/ \E p \in Procs : Persist(p)
  \/ \E p \in Procs : CloseMatching(p)
  \/ \E p \in Procs : CloseFilters(p)

SpecApproach == Init /\ [][ApproachNext]_vars

(***************************************************************************)
(* Properties of the company-checking page (checked under SpecPage)        *)
(***************************************************************************)
nameSetA == toUniqueSet(splitLines(textA), options)
nameSetB == toUniqueSet(splitLines(textB), options)

\* the lines of both text areas, and the whole texts taken as one string
InputStrings ==
  {splitLines(textA)[i] : i \in 1..Len(splitLines(textA))} \cup
  {splitLines(textB)[i] : i \in 1..Len(splitLines(textB))} \cup {textA, textB}

Reverse(s) == [i \in 1..Len(s) |-> s[Len(s) + 1 - i]]

\* keys of a line sequence, stated without the loop of toUniqueSet
KeysOf(lines) == {normalizeLine(lines[i], options) : i \in 1..Len(lines)} \ {<<>>}

\* number of lines whose normalization is not empty
AcceptedCount(lines) ==
  Cardinality({i \in 1..Len(lines) : normalizeLine(lines[i], options) # <<>>})

\* every line is made of spaces and non-breaking spaces only, and there is one
OnlyBlankLines(text) ==
  /\ text # <<>>
  /\ \A i \in 1..Len(text) : text[i] \in {SP, NBSP, LF}

\* C1: the reconciliation result partitions both sides: matches is disjoint
\* from onlyA and from onlyB, matches with onlyA is exactly the key set of A,
\* matches with onlyB is exactly the key set of B, and the sizes add up to the
\* unique counts.
C1_Partition ==
  /\ results.matches \cap results.onlyA = {}
  /\ results.matches \cap results.onlyB = {}
  /\ results.matches \cup results.onlyA = nameSetA.set
  /\ results.matches \cup results.onlyB = nameSetB.set
  /\ Cardinality(results.matches) + Cardinality(results.onlyA) = results.aUnique
  /\ Cardinality(results.matches) + Cardinality(results.onlyB) = results.bUnique

C1_Witness ==
  /\ results.matches # {}
  /\ results.onlyA # {}
  /\ results.onlyB = {}
  /\ results.aUnique = 2
  /\ results.bUnique = 1

\* C7 as claimed: input made only of whitespace / non-breaking-space lines
\* gives totalCount = 0 and uniqueCount = 0 for every setting of the options.
C7_BlankAnyOptions ==
  OnlyBlankLines(textA) => results.aTotal = 0 /\ results.aUnique = 0

\* C7 amended: with trim enabled (either case setting) input made only of
\* whitespace / non-breaking-space lines gives totalCount = 0 and
\* uniqueCount = 0; with trim disabled only the empty lines are dropped and
\* every other such line is counted.
C7_BlankWithTrim ==
  OnlyBlankLines(textA) =>
    /\ trim => results.aTotal = 0 /\ results.aUnique = 0
    /\ ~trim => results.aTotal =
         Cardinality({i \in 1..Len(splitLines(textA)) : splitLines(textA)[i] # <<>>})

C7_Witness ==
  /\ OnlyBlankLines(textA)
  /\ trim
  /\ \E i \in 1..Len(textA) : textA[i] = NBSP
  /\ \E i \in 1..Len(textA) : textA[i] = SP
  /\ results.aTotal = 0
  /\ results.aUnique = 0

\* C8: the name set built by toUniqueSet has uniqueCount = number of distinct
\* normalized keys, totalCount >= uniqueCount, totalCount = number of input
\* lines whose normalization is non-empty, and never the empty string as key.
C8_NameSetCounts ==
  \A text \in {textA, textB} :
    LET lines == splitLines(text)
        ns == toUniqueSet(lines, options)
    IN /\ ns.set = KeysOf(lines)
       /\ ns.uniqueCount = Cardinality(KeysOf(lines))
       /\ ns.totalCount >= ns.uniqueCount
       /\ ns.totalCount = AcceptedCount(lines)
       /\ <<>> \notin ns.set
       /\ DOMAIN ns.normalizedToOriginals = ns.set

C8_Witness ==
  /\ nameSetA.totalCount = 2
  /\ nameSetA.uniqueCount = 1
  /\ nameSetB.totalCount = 1
  /\ Len(splitLines(textB)) = 2

\* C9: normalizeLine is idempotent for every input string and every option
\* combination.
C9_NormalizeIdempotent ==
  \A x \in InputStrings :
    normalizeLine(normalizeLine(x, options), options) = normalizeLine(x, options)

C9_Witness ==
  /\ trim
  /\ caseInsensitive
  /\ textA = <<NBSP, "A", SP>>
  /\ normalizeLine(textA, options) = <<"a">>

\* C10: reconciliation is symmetric under side swap: the matches of (A,B) and
\* of (B,A) are equal and onlyA of (A,B) is onlyB of (B,A), whatever the order
\* of the input lines and whichever side is larger.
C10_SwapSymmetric ==
  LET ab == reconcile(nameSetA, nameSetB)
      ba == reconcile(nameSetB, nameSetA)
      ra == toUniqueSet(Reverse(splitLines(textA)), options)
      rb == toUniqueSet(Reverse(splitLines(textB)), options)
      rev == reconcile(rb, ra)
  IN /\ ab.matches = ba.matches
     /\ ab.onlyA = ba.onlyB
     /\ ab.onlyB = ba.onlyA
     /\ results.matches = ba.matches
     /\ results.onlyA = ba.onlyB
     /\ rev.matches = ab.matches
     /\ rev.onlyB = ab.onlyA

C10_Witness ==
  /\ Cardinality(nameSetA.set) > Cardinality(nameSetB.set)
  /\ results.matches # {}
  /\ results.onlyA # {}

\* the raw lines of a text that normalize to key k, in input order
RawLinesOf(text, k) ==
  SelectSeq(splitLines(text), LAMBDA l : normalizeLine(l, options) = k)

\* a key no text area can hold
ForeignKey == <<"z">>

Min2(m, n) == IF m <= n THEN m ELSE n

\* C25: on the key sets of the two sides, in either argument order,
\* setIntersection makes exactly min(|a|, |b|) membership tests and returns
\* a \cap b.
C25_IntersectionWork ==
  LET a == nameSetA.set
      b == nameSetB.set
  IN /\ setIntersectionRun(a, b).has = Min2(Cardinality(a), Cardinality(b))
     /\ setIntersectionRun(b, a).has = Min2(Cardinality(a), Cardinality(b))
     /\ setIntersectionRun(a, b).result = a \cap b
     /\ setIntersectionRun(b, a).result = a \cap b
     /\ setIntersection(a, b) = setIntersectionRun(a, b).result
     /\ results.matches = a \cap b

\* side A has two keys, side B one, and they share a key
C25_Witness ==
  /\ Cardinality(nameSetA.set) = 2
  /\ Cardinality(nameSetB.set) = 1
  /\ results.matches # {}


\* C11: every exported string is the first original line of its key on side
\* A if A has the key, otherwise the first original on side B, otherwise the
\* key itself; a key of matches is always exported with side A's first
\* original.
C11_ExportResolution ==
  /\ clipboard.label # "" =>
       /\ {clipboard.keys[i] : i \in 1..Len(clipboard.keys)} = results[clipboard.label]
       /\ Len(clipboard.lines) = Cardinality(results[clipboard.label])
       /\ \A i \in 1..Len(clipboard.keys) :
            LET k == clipboard.keys[i]
            IN /\ clipboard.lines[i] =
                    IF RawLinesOf(textA, k) # <<>> THEN RawLinesOf(textA, k)[1]
                    ELSE IF RawLinesOf(textB, k) # <<>> THEN RawLinesOf(textB, k)[1]
                    ELSE k
               /\ clipboard.label = "matches" =>
                    clipboard.lines[i] = RawLinesOf(textA, k)[1]
  /\ getOriginalList(<<ForeignKey>>, textA, textB, options) = <<ForeignKey>>

C11_Witness ==
  /\ clipboard.label = "matches"
  /\ Len(clipboard.keys) = 1
  /\ clipboard.lines[1] = RawLinesOf(textA, clipboard.keys[1])[1]
  /\ clipboard.lines[1] # RawLinesOf(textB, clipboard.keys[1])[1]

\* C12: for every key of a name set its originals are non-empty and list, in
\* input order, exactly the raw lines that normalize to the key; the keys
\* having originals are the unique keys.
C12_Originals ==
  \A text \in {textA, textB} :
    LET ns == toUniqueSet(splitLines(text), options)
    IN /\ DOMAIN ns.normalizedToOriginals = ns.set
       /\ \A k \in ns.set :
            /\ ns.normalizedToOriginals[k] # <<>>
            /\ ns.normalizedToOriginals[k] = RawLinesOf(text, k)

C12_Witness ==
  \E k \in nameSetA.set :
    /\ Len(nameSetA.normalizedToOriginals[k]) = 2
    /\ nameSetA.normalizedToOriginals[k][1] # nameSetA.normalizedToOriginals[k][2]
    /\ nameSetA.normalizedToOriginals[k] = RawLinesOf(textA, k)

(***************************************************************************)
(* Properties of the matching routes, the workflow and the result cache    *)
(***************************************************************************)
Answered(p) == procs[p].st = "responded" /\ procs[p].route = "matching"

Working(p) == procs[p].st \in {"FETCH_ORGANIZATIONS", "RECONCILE", "PERSIST"}

\* C2: runMatching serves the cached summary (fromCache = true, no new row)
\* exactly when forceRefresh is false and a summary already exists for the
\* filter identity; otherwise it recomputes and reports fromCache = false.
\* The passing of time alone never changes this.
C2_CachePolicy ==
  \A p \in Procs :
    Answered(p) /\ procs[p].resp.success =>
      /\ procs[p].resp.fromCache <=> (~procs[p].forceRefresh /\ procs[p].existed)
      /\ procs[p].resp.fromCache => ~procs[p].wrote
      /\ ~procs[p].resp.fromCache => procs[p].wrote

\* C3: two successive runMatching(filterId, forceRefresh = false) calls with
\* no upsertFilter in between leave the same summaries behind, and the second
\* reports fromCache = true.
C3_CacheIdempotent ==
  \A p \in Procs :
    /\ Answered(p)
    /\ procs[p].resp.success
    /\ ~procs[p].forceRefresh
    /\ procs[p].after # NoCall
    => /\ procs[p].resp.fromCache
       /\ procs[p].served = procs[p].after

C3_Witness ==
  \E p \in Procs :
    /\ Answered(p)
    /\ procs[p].resp.success
    /\ ~procs[p].forceRefresh
    /\ procs[p].after >= 1
    /\ procs[p].served = procs[p].after
    /\ procs[p].cmd.arg # Null
    /\ now > 0

\* C4: at most one resolve+fetch+reconcile+persist workflow is at work for a
\* filter identity at any time; two requests for the same identity never
\* overlap their membership overwrite or their summary append.
C4_MutualExclusion ==
  /\ \A p, q \in Procs :
       p # q /\ Working(p) /\ Working(q) => procs[p].id # procs[q].id
  /\ locks = {procs[p].id : p \in {q \in Procs : Working(q)}}

C4_Witness ==
  \E p, q \in Procs :
    /\ Working(p)
    /\ procs[p].st = "PERSIST"
    /\ procs[q].st = "FAILED"
    /\ procs[q].err = "ConcurrencyConflictError"
    /\ TargetOf(procs[q]) = procs[p].id

\* C5: a workflow that failed in any of its states has persisted no summary:
\* no row of the result cache was written by it.
C5_NoPartialSummary ==
  \A p \in Procs :
    \/ procs[p].st = "FAILED"
    \/ procs[p].err # ""
    \/ procs[p].st = "responded" /\ procs[p].resp.status = 500
    => ~procs[p].wrote

C5_Witness ==
  \E p \in Procs :
    /\ procs[p].st = "FAILED"
    /\ procs[p].err = "StorageError"
    /\ ~procs[p].wrote
    /\ Len(summaries) = 1

\* C6: getLatest returns the summary of the identity with the greatest
\* computedAt, the one written last if several share that timestamp, and
\* nothing exactly when no summary was written for the identity.
C6_GetLatest ==
  pie.status = 200 =>
    LET idx == {i \in 1..Len(summaries) : PieMatches(pie.filterId, summaries[i])}
        newest == {i \in idx : \A j \in idx :
                     summaries[j].created_at <= summaries[i].created_at}
        last == CHOOSE i \in newest : \A j \in newest : j <= i
    IN IF idx = {} THEN ~pie.hasData
       ELSE /\ pie.hasData
            /\ pie.running = summaries[last].matching_companies
            /\ pie.notActive = summaries[last].non_matching_pipedrive
            /\ pie.lastUpdated = summaries[last].created_at

(***************************************************************************)
(* Properties of the filter registry                                       *)
(***************************************************************************)
\* C13: a successful GET /api/filters returns the "Original Data" entry (null
\* filter_id) first and only there, followed by every stored filter exactly
\* once, newest created first.
C13_ListFilters ==
  listed.status = 200 =>
    LET fs == listed.filters
    IN /\ Len(fs) = Cardinality(StoredFilters) + 1
       /\ fs[1] = OriginalData
       /\ \A i \in 2..Len(fs) : fs[i].filter_id # Null
       /\ {fs[i].filter_id : i \in 2..Len(fs)} = {Str(f) : f \in StoredFilters}
       /\ \A i \in 2..Len(fs) :
            fs[i].created_at = userFilters[fs[i].filter_id.v].created_at
       /\ \A i, j \in 2..Len(fs) :
            i < j => fs[i].created_at >= fs[j].created_at

\* two filters created at different times are listed, the younger one (which
\* has the smaller identity) ahead of the older
C13_Witness ==
  /\ listed.status = 200
  /\ Len(listed.filters) = 3
  /\ listed.filters[2].filter_id = Str(<<"1">>)
  /\ listed.filters[3].filter_id = Str(<<"2">>)
  /\ listed.filters[2].created_at > listed.filters[3].created_at

\* the slots whose workflow has resolved (or failed to resolve) its reference
Resolved(p) ==
  /\ UsesReference(procs[p].cmd)
  /\ procs[p].st \notin {"idle", "SPAWNED", "responded"}

\* r is the maximal digit run of ref that starts at position i
IsMaximalRunAt(ref, i, r) ==
  /\ r # <<>>
  /\ i + Len(r) - 1 <= Len(ref)
  /\ r = SubSeq(ref, i, i + Len(r) - 1)
  /\ \A k \in 1..Len(r) : r[k] \in Digits
  /\ i + Len(r) > Len(ref) \/ ref[i + Len(r)] \notin Digits

\* C14: the resolved identity is the maximal digit run at the first digit that
\* directly follows "filters/" or "filter_id="; without such a digit, the
\* maximal run at the first digit of the reference; a reference without any
\* digit fails with InvalidReferenceError.
C14_ResolveReference ==
  \A p \in Procs :
    Resolved(p) =>
      LET ref == procs[p].cmd.arg.v
          digitAt == {i \in 1..Len(ref) : ref[i] \in Digits}
          afterMarker == {i \in digitAt :
                            i > 1 /\ ref[i - 1] \in {"filters/", "filter_id="}}
          starts == IF afterMarker # {} THEN afterMarker ELSE digitAt
      IN IF digitAt = {}
         THEN /\ procs[p].st = "FAILED"
              /\ procs[p].err = "InvalidReferenceError"
              /\ procs[p].id = Undefined
         ELSE /\ procs[p].err # "InvalidReferenceError"
              /\ procs[p].id.t = "string"
              /\ \E i \in starts :
                   /\ \A j \in starts : i <= j
                   /\ IsMaximalRunAt(ref, i, procs[p].id.v)

\* a reference with a digit run ahead of the "filters/" segment has resolved
\* to the run after the segment, and the workflow went on with that filter
C14_Witness ==
  \E p \in Procs :
    /\ procs[p].cmd.arg = Str(<<"x", "3", "filters/", "2">>)
    /\ procs[p].st = "FETCH_ORGANIZATIONS"
    /\ procs[p].id = Str(<<"2">>)

\* C15: a workflow leaving FETCH_ORGANIZATIONS has asked the CRM only if its
\* filter was not in the registry or the request set forceRefresh; for a
\* filter already there and no forceRefresh it has not asked the CRM and the
\* persisted organizations and filter records are what they were.
C15_FetchOnlyWhenNeeded ==
  [][\A p \in Procs :
       (procs[p].st = "FETCH_ORGANIZATIONS" /\ procs'[p].st # "FETCH_ORGANIZATIONS") =>
          /\ procs'[p].crm # "none" => procs[p].forceRefresh \/ ~procs[p].known
          /\ (procs[p].known /\ ~procs[p].forceRefresh) =>
                /\ procs'[p].crm = "none"
                /\ userFilters' = userFilters
                /\ orgsAll' = orgsAll]_vars

\* a workflow for a filter already in the registry, without forceRefresh and
\* without a summary to serve, went on to RECONCILE without asking the CRM
C15_Witness ==
  \E p \in Procs :
    /\ UsesReference(procs[p].cmd)
    /\ procs[p].known
    /\ ~procs[p].forceRefresh
    /\ procs[p].st = "RECONCILE"
    /\ procs[p].crm = "none"
    /\ userFilters[procs[p].id.v].orgs # {}

(***************************************************************************)
(* Properties of the workflow's state machine                              *)
(***************************************************************************)
\* the implicit "no filter" case: the command names no filter
NoFilterCase(pr) == pr.cmd.arg = Null

\* a workflow that ends by serving the stored summary instead of recomputing
ServesCached(a, b) ==
  /\ a.st \in {"FETCH_ORGANIZATIONS", "RECONCILE"}
  /\ b.st = "DONE"
  /\ HasSummary(a.id)
  /\ ~b.wrote
  /\ summaries' = summaries

\* the moves of one slot from a to b along the state machine of the spec;
\* shortcut: whether DONE may be reached by serving the stored summary
InOrder(a, b, shortcut) ==
  \/ b.st = a.st
  \/ a.st = "idle" /\ b.st \in {"SPAWNED", "responded"}
  \/ a.st = "SPAWNED" /\ b.st = "responded"
  \/ a.st = "SPAWNED" /\ ~NoFilterCase(a) /\ b.st \in {"RESOLVE_FILTER", "FAILED"}
  \/ a.st = "SPAWNED" /\ NoFilterCase(a) /\ b.st \in {"FETCH_ORGANIZATIONS", "FAILED"}
  \/ a.st = "RESOLVE_FILTER" /\ b.st \in {"FETCH_ORGANIZATIONS", "FAILED"}
  \/ a.st = "FETCH_ORGANIZATIONS" /\ b.st \in {"RECONCILE", "FAILED"}
  \/ a.st = "RECONCILE" /\ b.st \in {"PERSIST", "FAILED"}
  \/ a.st = "PERSIST" /\ b.st \in {"DONE", "FAILED"}
  \/ a.st \in {"DONE", "FAILED"} /\ b.st = "responded"
  \/ a.st = "responded" /\ b.st = "idle"
  \/ shortcut /\ ServesCached(a, b)

\* a summary is written only by the step from PERSIST to DONE
WritesOnlyInPersist ==
  summaries' # summaries =>
    \E p \in Procs : procs[p].st = "PERSIST" /\ procs'[p].st = "DONE"

Upserts(p) ==
  /\ UsesReference(procs[p].cmd)
  /\ procs[p].crm = "none"
  /\ procs'[p].crm = "stored"

\* C17: storing the CRM's answer for a filter that is in the registry leaves
\* exactly the answered organizations as its membership, sets the count to
\* their number and last_used to the time of the call, and keeps created_at;
\* for a filter not in the registry the record is created; no other filter's
\* record or membership changes.
C17_UpsertReplaces ==
  [][\A p \in Procs :
       Upserts(p) =>
         LET f == procs[p].id.v
         IN /\ Exists(f)'
            /\ userFilters'[f].orgs = procs'[p].pulled
            /\ userFilters'[f].organizations_count = Cardinality(procs'[p].pulled)
            /\ userFilters'[f].last_used = now
            /\ userFilters'[f].created_at =
                 IF Exists(f) THEN userFilters[f].created_at ELSE now
            /\ \A g \in FilterIds \ {f} : userFilters'[g] = userFilters[g]]_vars

\* a forced refresh has stored a one-organization answer for a filter whose
\* earlier summary counted a non-matching organization the answer lacks,
\* later than the filter was created, with the other filter in the registry
C17_Witness ==
  \E p \in Procs :
    /\ procs[p].crm = "stored"
    /\ procs[p].known
    /\ procs[p].pulled = userFilters[procs[p].id.v].orgs
    /\ Cardinality(procs[p].pulled) = 1
    /\ procs[p].pulled \subseteq Leads
    /\ \E i \in DOMAIN summaries :
         /\ summaries[i].filter_id = procs[p].id
         /\ summaries[i].non_matching_pipedrive > 0
    /\ userFilters[procs[p].id.v].created_at < userFilters[procs[p].id.v].last_used
    /\ \E g \in FilterIds \ {procs[p].id.v} : Exists(g)

(***************************************************************************)
(* Properties of the result cache's rows                                   *)
(***************************************************************************)
\* the rows after the step are the rows before it, followed by n new rows
Appended(n) ==
  /\ Len(summaries') = Len(summaries) + n
  /\ SubSeq(summaries', 1, Len(summaries)) = summaries

\* C18: in every step the summary rows stay as they are or get exactly one
\* row appended behind them; the step in which a workflow puts its summary
\* appends exactly one row; a step that fails with StorageError leaves the
\* rows as they were.
C18_AppendOnly ==
  [][/\ Appended(0) \/ Appended(1)
     /\ \A p \in Procs :
          /\ (procs[p].st = "PERSIST" /\ procs'[p].st = "DONE") => Appended(1)
          /\ (procs[p].st = "PERSIST" /\ procs'[p].err = "StorageError") =>
                Appended(0)]_vars

\* a forced run has put a second row for an identity that had one, and both
\* rows are there
C18_Witness ==
  /\ Len(summaries) = 2
  /\ summaries[1].filter_id = summaries[2].filter_id
  /\ \E p \in Procs :
       /\ procs[p].st = "DONE"
       /\ procs[p].wrote
       /\ procs[p].existed
       /\ procs[p].id = summaries[2].filter_id

(***************************************************************************)
(* Properties of deletion and of failed workflows                          *)
(***************************************************************************)
\* the step deletes filter f
Deletes(f) == Exists(f) /\ ~Exists(f)'

\* the part of C19 on the summaries: a deletion leaves every row in place
SummariesKeptByDelete ==
  [][(\E f \in FilterIds : Deletes(f)) => summaries' = summaries]_vars

\* C19: a filter that has been deleted has no membership left and is not
\* among the entries GET /api/filters returns.
C19_DeletedNotListed ==
  /\ \A f \in FilterIds : ~Exists(f) => userFilters[f].orgs = {}
  /\ listed.status = 200 =>
       \A i \in 2..Len(listed.filters) : Exists(listed.filters[i].filter_id.v)

\* C20: a workflow that has failed in FETCH_ORGANIZATIONS or in RECONCILE has
\* written no summary and has stored nothing in the registry: a filter that
\* was not in the registry when it began is not there now, and no answer of
\* the CRM has been saved.
C20_NothingStoredBeforePersist ==
  \A p \in Procs :
    (procs[p].st = "FAILED" /\ procs[p].err \in {"ExternalFetchError", "ReconcileError"}) =>
      /\ ~procs[p].wrote
      /\ procs[p].crm # "stored"
      /\ (UsesReference(procs[p].cmd) /\ ~procs[p].known) => ~Exists(procs[p].id.v)

(***************************************************************************)
(* Properties of the routes' answers                                       *)
(***************************************************************************)
\* the request is answered at once with status 400: no command is built, no
\* process is spawned, registry, cache and locks stay as they are
Rejected(p) ==
  /\ procs'[p].st = "responded"
  /\ procs'[p].resp.status = 400
  /\ ~procs'[p].resp.success
  /\ procs'[p].resp.error # ""
  /\ procs'[p].cmd = NoCmd
  /\ UNCHANGED <<userFilters, orgsAll, summaries, locks>>

\* C23: POST /api/matching with a filterId that is neither null, undefined
\* nor a string, and POST /api/filters with a missing or non-string
\* filterUrl, are answered with 400 without a process being spawned and with
\* registry and cache unchanged; no other matching request is answered 400.
C23_MalformedRejected ==
  [][\A p \in Procs :
       /\ \A filterId \in MatchingFilterIds, forceRefresh \in BOOLEAN :
            (procs[p].st = "idle" /\ procs'[p].st # "idle"
               /\ PostMatching(p, filterId, forceRefresh)) =>
              (filterId.t \notin {"null", "undefined", "string"} <=> Rejected(p))
       /\ \A filterUrl \in FilterUrls :
            (procs[p].st = "idle" /\ procs'[p].st # "idle"
               /\ PostFilters(p, filterUrl) /\ filterUrl.t # "string") => Rejected(p)
       /\ (procs[p].st = "idle" /\ procs'[p].st = "SPAWNED") =>
            /\ procs'[p].cmd.arg.t \in {"null", "string"}
            /\ procs'[p].cmd.arg # Str(<<>>)]_vars

\* with a summary in the cache and a filter in the registry, a matching
\* request and a filter request have both been answered 400
C23_Witness ==
  /\ Len(summaries) > 0
  /\ \E f \in FilterIds : Exists(f)
  /\ \E p, q \in Procs :
       /\ procs[p].route = "matching" /\ procs[p].resp.status = 400
       /\ procs[q].route = "filters" /\ procs[q].resp.status = 400

\* the answer of slot p after the step is an error answer with its detail
ErrorAnswer(p) ==
  /\ ~procs'[p].resp.success
  /\ procs'[p].resp.status = 500
  /\ procs'[p].resp.error # ""

\* C24: when a slot is answered, the answer says success only if the process
\* ended in DONE (exit code 0); a workflow that ended in FAILED (non-zero
\* exit) and a process that could not be started are answered with status
\* 500 and the error text.
C24_NoFailureSwallowed ==
  [][\A p \in Procs :
       (procs[p].st # "responded" /\ procs'[p].st = "responded") =>
         /\ procs'[p].resp.success =>
              /\ procs[p].st = "DONE"
              /\ exitCode(procs[p]) = 0
              /\ procs[p].err = ""
              /\ procs'[p].resp.status = 200
         /\ procs[p].st = "FAILED" => exitCode(procs[p]) # 0 /\ ErrorAnswer(p)
         /\ procs[p].st = "SPAWNED" =>
              /\ ErrorAnswer(p)
              /\ procs'[p].resp.error \in
                   {"Failed to execute matching", "Failed to execute filter processing"}]_vars

\* a failed matching workflow and a failed filter workflow have both been
\* answered with status 500
C24_Witness ==
  \E p, q \in Procs :
    /\ procs[p].st = "responded" /\ procs[p].route = "matching"
    /\ procs[p].err = "ReconcileError" /\ procs[p].resp.status = 500
    /\ procs[q].st = "responded" /\ procs[q].route = "filters"
    /\ procs[q].err # "" /\ procs[q].resp.error = "Filter processing failed"

\* the cache key of the "no filter" identity
NoFilterKey(r) == r.filter_id = Null \/ r.filter_id = Str(<<>>)

\* C22: a matching request with filterId null, undefined or "" is given the
\* default command (matching.py, after main.py when forced) that names no
\* filter; a row written by such a workflow has the no-filter key and a row
\* written by a named filter's workflow has that filter's key; a pie-data
\* query without filter (absent, "null" or "") answers from the rows with the
\* no-filter key only.
C22_NoFilterIdentity ==
  [][/\ \A p \in Procs, forceRefresh \in BOOLEAN :
          \A filterId \in {Null, Undefined, Str(<<>>)} :
            (procs[p].st = "idle" /\ procs'[p].st # "idle"
               /\ PostMatching(p, filterId, forceRefresh)) =>
              /\ procs'[p].st = "SPAWNED"
              /\ procs'[p].cmd.arg = Null
              /\ procs'[p].cmd.script =
                   IF forceRefresh THEN "main.py && matching.py" ELSE "matching.py"
     /\ \A p \in Procs :
          (procs[p].st = "PERSIST" /\ procs'[p].wrote) =>
            /\ procs[p].cmd.arg = Null => NoFilterKey(summaries'[Len(summaries')])
            /\ procs[p].cmd.arg # Null =>
                 summaries'[Len(summaries')].filter_id = procs[p].cmd.arg
     /\ (pie'.status = 200 /\ pie'.filterId \in {Null, Str(<<"null">>), Str(<<>>)}) =>
          IF \E i \in DOMAIN summaries' : NoFilterKey(summaries'[i])
          THEN /\ pie'.hasData
               /\ \E i \in DOMAIN summaries' :
                    /\ NoFilterKey(summaries'[i])
                    /\ pie'.running = summaries'[i].matching_companies
                    /\ pie'.notActive = summaries'[i].non_matching_pipedrive
                    /\ pie'.lastUpdated = summaries'[i].created_at
          ELSE ~pie'.hasData]_vars

\* the cache holds a row of a named filter and, written later, a row of the
\* no-filter identity with other counts; a query with filterId "" has been
\* answered with the latter
C22_Witness ==
  /\ Len(summaries) = 2
  /\ summaries[1].filter_id = Str(<<"1">>)
  /\ summaries[2].filter_id = Null
  /\ summaries[1].created_at < summaries[2].created_at
  /\ summaries[1].matching_companies # summaries[2].matching_companies
  /\ pie.status = 200
  /\ pie.filterId = Str(<<>>)
  /\ pie.hasData
  /\ pie.running = summaries[2].matching_companies

(***************************************************************************)
(* Termination                                                             *)
(***************************************************************************)
\* C21: a request whose process was spawned is answered; a workflow that
\* has started ends in DONE or FAILED, and a workflow whose call to the CRM
\* has stalled ends in FAILED.
C21_Terminates ==
  \A p \in Procs :
    /\ (procs[p].st = "SPAWNED") ~> (procs[p].st = "responded")
    /\ (procs[p].st \in {"RESOLVE_FILTER", "FETCH_ORGANIZATIONS", "RECONCILE", "PERSIST"})
         ~> (procs[p].st \in {"DONE", "FAILED"})
    /\ (procs[p].crm = "stalled") ~> (procs[p].st = "FAILED")
    /\ (procs[p].st \in {"DONE", "FAILED"}) ~> (procs[p].st = "responded")

\* a workflow whose call to the CRM stalled has failed with
\* ExternalFetchError and its request has been answered with status 500,
\* while the other workflow is still at work
C21_Witness ==
  \E p, q \in Procs :
    /\ procs[p].st = "responded"
    /\ procs[p].err = "ExternalFetchError"
    /\ procs[p].resp.status = 500
    /\ procs[q].st = "FETCH_ORGANIZATIONS"
    /\ procs[q].crm = "stalled"

(***************************************************************************)
(* Properties of the export on the company-checking page                   *)
(***************************************************************************)
\* the raw lines of both text areas
RawLines ==
  {splitLines(textA)[i] : i \in 1..Len(splitLines(textA))} \cup
  {splitLines(textB)[i] : i \in 1..Len(splitLines(textB))}

\* C30: every key of matches, onlyA and onlyB has originals in side A's or
\* side B's map built from the page's texts and options; what a copy exports
\* for a key is a raw line of one of the text areas, not the fallback, and
\* normalizes to that key under the page's options.
C30_NoFallback ==
  /\ \A label \in Labels :
       results[label] \subseteq
         (DOMAIN nameSetA.normalizedToOriginals) \cup
         (DOMAIN nameSetB.normalizedToOriginals)
  /\ clipboard.label # "" =>
       \A i \in 1..Len(clipboard.lines) :
         /\ clipboard.lines[i] \in RawLines
         /\ normalizeLine(clipboard.lines[i], options) = clipboard.keys[i]
         /\ clipboard.keys[i] \in results[clipboard.label]

\* a copy of only-in-A has exported a line that differs from its key, while
\* side B holds another key
C30_Witness ==
  /\ clipboard.label = "onlyA"
  /\ Len(clipboard.lines) > 0
  /\ clipboard.lines[1] # clipboard.keys[1]
  /\ results.onlyB # {}

(***************************************************************************)
(* The end-to-end scenario of the company-checking page                    *)
(***************************************************************************)
\* C26: with trim and caseInsensitive set, a side A of two spellings of
\* "Acme Inc" (differing in letter case or surrounding blanks only) and
\* "Globex", against a side B of one spelling of "Acme Inc" and "Initech",
\* gives aTotal = 3, aUnique = 2, bTotal = 2, bUnique = 2,
\* matches = {"acme inc"}, onlyA = {"globex"}, onlyB = {"initech"}.
C26_Scenario ==
  (trim /\ caseInsensitive /\ textA \in PastedA /\ textB \in PastedB) =>
    /\ results.aTotal = 3
    /\ results.aUnique = 2
    /\ results.bTotal = 2
    /\ results.bUnique = 2
    /\ results.matches = {AcmeIncLower}
    /\ results.onlyA = {ToLowerCase(Globex)}
    /\ results.onlyB = {ToLowerCase(Initech)}

\* the lists of the scenario as given: A = Acme Inc, Acme Inc, Globex and
\* B = acme inc, Initech, with both options set
C26_Witness ==
  /\ trim
  /\ caseInsensitive
  /\ textA = JoinLF(<<AcmeInc, AcmeInc, Globex>>)
  /\ textB = JoinLF(<<AcmeIncLower, Initech>>)
  /\ results.matches = {AcmeIncLower}

(***************************************************************************)
(* The approach page                                                       *)
(***************************************************************************)
\* the POST /api/matching requests of the selector that are under way
MatchingRequests(requests) == {r \in requests : r.kind = "matching"}

\* C27: a FilterSelector has at most one POST /api/matching request in flight
\* at any time, and a filter click made while a request is pending issues no
\* request and leaves the selection as it is.
C27_OneMatchingInFlight ==
  [][/\ Cardinality(MatchingRequests(net')) <= 1
     /\ \A f \in Identities :
          (MatchingRequests(net) # {} /\ handleFilterClick(f)) =>
            /\ net' = net
            /\ sel'.selectedFilterId = sel.selectedFilterId]_vars

\* a request is pending while the list shows a second filter to click on
C27_Witness ==
  /\ MatchingRequests(net) # {}
  /\ sel.isProcessing
  /\ ListView
  /\ \E f \in ButtonsOf(sel.filters) : f # sel.selectedFilterId

\* no request of the page is under way and no script is running
Settled == net = {} /\ Quiet

\* the counts of a latest summary row of the identity, 0/0 without a row
LatestPieOf(filterId) ==
  IF PieCandidates(PieQueryOf(filterId)) = {}
  THEN {PieOf(0, 0)}
  ELSE {PieOf(summaries[i].matching_companies,
              summaries[i].non_matching_pipedrive) :
          i \in PieCandidates(PieQueryOf(filterId))}

\* C28: once every pending request has settled, the pie shows the counts of
\* the latest summary of the filter selected on the page (0/0 without one),
\* in whatever order selections are made and pie-data answers arrive or fail.
C28_PieOfSelected ==
  Settled => app.pieData \in LatestPieOf(app.selectedFilterId)

\* C29: from the error view, Retry followed by a successful fetch of the
\* filters brings back the list of filters with the error cleared.
C29_RetryRecovers ==
  [][\A r \in net :
       (/\ ErrorView
        /\ r.by = "retry"
        /\ ReceiveFilters(r, FALSE)
        /\ listed'.status = 200) => (sel'.error = NoError /\ ~sel'.isLoading)]_vars

====
